---- MODULE Spec2Model ----
(***************************************************************************)
(* A model of mpvif-plugin (src/mpvif-plugin/mpvif-plugin.c): the          *)
(* single-threaded reactor that mirrors pointer position, clipboard        *)
(* contents and window titles between an mpv host and a remote Wayland     *)
(* compositor.  Every listener callback and property-change handler of the *)
(* plugin is one action.  The requests a handler sends to the remote and   *)
(* the properties it sets on the host are recorded in `effects`; the       *)
(* notification it handled is recorded in `event`.                         *)
(*                                                                         *)
(* The handlers fall into four groups that share no state except the       *)
(* resolved targets and the two bound objects, and each group is checked   *)
(* under its own specification:                                            *)
(*   SpecGate   registry, target output/seat, pointer and device gating    *)
(*   SpecMap    coordinate mapping in both directions                      *)
(*   SpecTitle  foreign-toplevel tracking and title synthesis              *)
(*   SpecClip   remote offers and their receive                            *)
(*   SpecSel    host selection changes, sources and the offers for them    *)
(*   SpecLoop   startup, a small session, the end of the loop, teardown    *)
(*   SpecStart  startup of mpvif-plugin and of mpvif-motion                *)
(*                                                                         *)
(* Pointers are modelled as sequences of length at most one: NULL is the   *)
(* empty sequence and Ref(x) points to x.  C strings are TLA+ strings,     *)
(* except clipboard texts, which are sequences of bytes.                   *)
(* All integers of the model lie within int32, where the int64 -> int32    *)
(* conversions of pchg_mouse_pos preserve the value.                       *)
(***************************************************************************)
EXTENDS Integers, Sequences, FiniteSets, TLC

VARIABLES
    \* registry and gating (lines 127-159)
    wayland_output_list,        \* global ids of the tracked wl_outputs
    wayland_seat_list,          \* global ids of the tracked wl_seats
    remote_output,              \* NULL or Ref(id): the resolved target output
    remote_seat,                \* NULL or Ref(id): the resolved target seat
    virtual_pointer,            \* NULL or Ref([seat, output])
    data_control_manager,       \* NULL or Ref("manager"): bound at startup
    data_control_device,        \* NULL or Ref([seat])
    input_forwarding_enabled,   \* int flag
    force_grab_cursor_enabled,  \* int flag
    \* coordinate mapping (lines 104-116, 161-162)
    osd_v,                      \* [ml, mr, mt, mb, w, h]
    video_v,                    \* [w, h]
    output_layout,              \* [x, y]: output_layout_x, output_layout_y
    \* foreign toplevels (lines 84-91, 118, 156)
    toplevels,                  \* window id -> NoWindow or the handle's fields
    current_eligible_toplevel,  \* NULL or Ref(window id)
    media_title,                \* the media_title buffer, as a C string
    force_media_title,          \* the host's force-media-title property
    committed,                  \* window id -> NULL or Ref(fields at last done)
    \* clipboard (lines 120-125)
    selection_source,           \* [obj, text, len]
    primary_selection_source,   \* [obj, text, len]
    dc_offer,                   \* NULL or Ref(offer id)
    dc_offer_mime_idx,          \* -1 or an index into utf8_mimes
    dc_offer_is_our_own,        \* BOOLEAN
    offers,                     \* offer ids the remote has announced and that
                                \* are not destroyed
    announced,                  \* MIME types the tracked offer announced, in
                                \* order, since it became the tracked offer
    next_source,                \* the source object created last, 0 if none
    published,                  \* role (primary or not) -> NULL or Ref of the
                                \* source of ours the remote holds as selection
    offer_origin,               \* offer id -> NULL for a foreign offer, or Ref
                                \* of the published source the offer describes
    \* startup, reactor loop and teardown (lines 127-131, 1143-1360)
    pc,                         \* where mpv_open_cplugin is: "start", "loop"
                                \* or "done" (it has returned)
    rc,                         \* the local rc of mpv_open_cplugin
    virtual_pointer_manager,    \* NULL or Ref("manager")
    toplevel_manager,           \* NULL or Ref("manager")
    observe_fails,              \* the properties for which the host's
                                \* mpv_observe_property returns an error
    motion,                     \* mpvif-motion (src/mpvif-motion): its pc, rc
                                \* and virtual_pointer
    \* the two threads around the wake pipe and the transfer pipe
    \* (lines 796-846, 987-990, 1028-1047, 1246-1254)
    reactor,                    \* where the thread of mpv_open_cplugin is in
                                \* its loop: "poll", "read" and "wait_event"
                                \* (in dispatch_mpv_events), "receive" (in the
                                \* read loop of receive_offer)
    wakeup_pipe,                \* the number of bytes in the wake pipe
    mpv_events,                 \* the host's event queue for the plugin
    enqueued,                   \* how many events the host has queued so far
    need_wakeup,                \* the host has invoked the wake callback
                                \* since the plugin last found the queue empty
    host_pc,                    \* the host thread: "idle", or "wakeup" between
                                \* queueing an event and waking the plugin
    receive_pipe,               \* the transfer pipe of receive_offer
    dispatched,                 \* the queued events handled so far
    \* the step just taken
    last_handler,               \* the name of the handler that took it
    event,                      \* the notification the last step handled
    effects,                    \* requests sent and host properties set by it
    fault,                      \* the undefined operation it executed, if any
    crashed                     \* the process was killed by a fault

vars == <<wayland_output_list, wayland_seat_list, remote_output, remote_seat,
          virtual_pointer, data_control_manager, data_control_device,
          input_forwarding_enabled, force_grab_cursor_enabled,
          osd_v, video_v, output_layout,
          toplevels, current_eligible_toplevel, media_title,
          force_media_title, committed,
          selection_source, primary_selection_source, dc_offer,
          dc_offer_mime_idx, dc_offer_is_our_own, offers, announced,
          next_source, published, offer_origin,
          pc, rc, virtual_pointer_manager, toplevel_manager, observe_fails,
          motion, reactor, wakeup_pipe, mpv_events, enqueued, need_wakeup,
          host_pc, receive_pipe, dispatched, last_handler, event, effects,
          fault, crashed>>

gateVars == <<wayland_output_list, wayland_seat_list, remote_output,
              remote_seat, virtual_pointer, data_control_manager,
              data_control_device, input_forwarding_enabled,
              force_grab_cursor_enabled>>
mapVars == <<osd_v, video_v, output_layout>>
titleVars == <<toplevels, current_eligible_toplevel, media_title,
               force_media_title, committed>>
clipVars == <<selection_source, primary_selection_source, dc_offer,
              dc_offer_mime_idx, dc_offer_is_our_own, offers, announced,
              next_source, published, offer_origin>>
loopVars == <<pc, rc, virtual_pointer_manager, toplevel_manager,
              observe_fails, motion>>
wakeVars == <<reactor, wakeup_pipe, mpv_events, enqueued, need_wakeup,
              host_pc, receive_pipe, dispatched>>

----------------------------------------------------------------------------
(* Pointers *)

NULL == <<>>
Ref(x) == <<x>>
Deref(p) == p[1]

\* MAX and MIN of <sys/param.h>
MAX(a, b) == IF a > b THEN a ELSE b
MIN(a, b) == IF a < b THEN a ELSE b

----------------------------------------------------------------------------
(* Bounds of the model *)

MaxOutputs == 2
MaxSeats == 2

OutputIds == 1 .. MaxOutputs
SeatIds == (MaxOutputs + 1) .. (MaxOutputs + MaxSeats)
\* one more id, of a global that is neither an output nor a seat
GlobalIds == 1 .. (MaxOutputs + MaxSeats + 1)

\* the strings read once at startup (lines 1151-1167); str_is_set holds of each
remote_display_name == "wayland-1"
remote_output_name == "HEADLESS-1"
remote_seat_name == "seat0"

OutputNames == {remote_output_name, "DP-1"}
SeatNames == {remote_seat_name, "seat1"}
Flags == {0, 1}

----------------------------------------------------------------------------
(* Effects: what a handler sends to the remote or sets on the host *)

\* the reactor is in its loop (lines 1268-1307) and dispatches handlers
Running == ~crashed /\ pc = "loop"

\* no transfer pipe is open
NoPipe == [open |-> FALSE, own |-> FALSE, peer |-> FALSE, data |-> <<>>,
           mem |-> <<>>, primary |-> FALSE]

\* how a handler comes to run: called by wl_display_dispatch or
\* dispatch_i3ipc_events after poll has returned (lines 1276, 1298), or by
\* property_change_event for the event that mpv_wait_event has just taken
\* from the head of the queue (lines 1034, 1040-1042)
Dispatch ==
    IF reactor = "wait_event"
    THEN /\ mpv_events # <<>>
         /\ mpv_events' = Tail(mpv_events)
         /\ dispatched' = dispatched \cup {Head(mpv_events).id}
         /\ UNCHANGED <<reactor, wakeup_pipe, enqueued, need_wakeup, host_pc,
                        receive_pipe>>
    ELSE reactor = "poll" /\ UNCHANGED wakeVars

\* a step that executes no undefined operation
NoFault == fault' = "none" /\ crashed' = FALSE

\* mpv_set_property_string(hmpv, name, value)
set_property_string(name, value) ==
    [op |-> "mpv_set_property_string", arg |-> <<name, value>>]

----------------------------------------------------------------------------
(* Pointer and clipboard-device gating (lines 685-749) *)

\* should_create_virtual_pointer without the force-grab-cursor test
should_create_virtual_pointer_no_grab(vp, out, seat, fwd, grab) ==
    vp = NULL /\ out # NULL /\ seat # NULL /\ fwd # 0

\* should_create_virtual_pointer, on the values the caller has just assigned
should_create_virtual_pointer(vp, out, seat, fwd, grab) ==
    vp = NULL /\ out # NULL /\ seat # NULL /\ fwd # 0 /\ grab = 0

\* create_virtual_pointer: the new value of virtual_pointer
create_virtual_pointer(out, seat) ==
    Ref([seat |-> Deref(seat), output |-> Deref(out)])

should_create_data_control_device(dev, seat, fwd) ==
    dev = NULL /\ seat # NULL /\ fwd # 0

create_data_control_device(seat) == Ref([seat |-> Deref(seat)])

\* logger (lines 570-579)
logger(message) == [op |-> "logger", arg |-> message]

\* mpv_observe_property(hmpv, userdata, name, format) and the log of its
\* failure: the call fails for the properties in observe_fails
observe_property(name) ==
    <<[op |-> "mpv_observe_property", arg |-> name]>>
    \o (IF name \in observe_fails
        THEN <<logger("failed to observe the " \o name \o " property")>>
        ELSE <<>>)

destroy_virtual_pointer_effects ==
    <<[op |-> "zwlr_virtual_pointer_v1_destroy", arg |-> <<>>],
      [op |-> "mpv_unobserve_property", arg |-> "mouse-pos"]>>

create_virtual_pointer_effects ==
    <<[op |-> "create_virtual_pointer_with_output", arg |-> <<>>]>>
    \o observe_property("mouse-pos")

create_data_control_device_effects ==
    <<[op |-> "ext_data_control_manager_v1_get_data_device", arg |-> <<>>]>>
    \o observe_property("clipboard/text")
    \o observe_property("clipboard/text-primary")

destroy_data_control_device_effects ==
    <<[op |-> "ext_data_control_device_v1_destroy", arg |-> <<>>],
      [op |-> "mpv_unobserve_property", arg |-> "clipboard/text"],
      [op |-> "mpv_unobserve_property", arg |-> "clipboard/text-primary"]>>

----------------------------------------------------------------------------
(* Registry (lines 450-564) *)

\* registry_global for a wl_output global (lines 523-532)
registry_global_output(name) ==
    /\ Running /\ Dispatch /\ UNCHANGED loopVars
    /\ name \in OutputIds \ wayland_output_list
    /\ wayland_output_list' = wayland_output_list \cup {name}
    /\ last_handler' = "registry_global"
    /\ event' = [handler |-> "registry_global", arg |-> name]
    /\ effects' = <<[op |-> "wl_registry_bind", arg |-> name]>>
    /\ UNCHANGED <<wayland_seat_list, remote_output, remote_seat,
                   virtual_pointer, data_control_manager, data_control_device,
                   input_forwarding_enabled, force_grab_cursor_enabled>>
    /\ NoFault /\ UNCHANGED <<mapVars, titleVars, clipVars>>

\* registry_global for a wl_seat global (lines 534-543)
registry_global_seat(name) ==
    /\ Running /\ Dispatch /\ UNCHANGED loopVars
    /\ name \in SeatIds \ wayland_seat_list
    /\ wayland_seat_list' = wayland_seat_list \cup {name}
    /\ last_handler' = "registry_global"
    /\ event' = [handler |-> "registry_global", arg |-> name]
    /\ effects' = <<[op |-> "wl_registry_bind", arg |-> name]>>
    /\ UNCHANGED <<wayland_output_list, remote_output, remote_seat,
                   virtual_pointer, data_control_manager, data_control_device,
                   input_forwarding_enabled, force_grab_cursor_enabled>>
    /\ NoFault /\ UNCHANGED <<mapVars, titleVars, clipVars>>

\* output_name (lines 450-461)
output_name(o, name) ==
    /\ Running /\ Dispatch /\ UNCHANGED loopVars
    /\ o \in wayland_output_list
    /\ last_handler' = "output_name"
    /\ event' = [handler |-> "output_name", arg |-> <<o, name>>]
    /\ IF name = remote_output_name
       THEN LET create == should_create_virtual_pointer(virtual_pointer,
                              Ref(o), remote_seat, input_forwarding_enabled,
                              force_grab_cursor_enabled)
            IN  /\ remote_output' = Ref(o)
                /\ virtual_pointer' =
                       IF create
                       THEN create_virtual_pointer(Ref(o), remote_seat)
                       ELSE virtual_pointer
                /\ effects' = IF create THEN create_virtual_pointer_effects
                              ELSE <<>>
       ELSE /\ UNCHANGED <<remote_output, virtual_pointer>>
            /\ effects' = <<>>
    /\ UNCHANGED <<wayland_output_list, wayland_seat_list, remote_seat,
                   data_control_manager, data_control_device,
                   input_forwarding_enabled, force_grab_cursor_enabled>>
    /\ NoFault /\ UNCHANGED <<mapVars, titleVars, clipVars>>

\* seat_name (lines 482-496).  create_data_control_device passes
\* data_control_manager to ext_data_control_manager_v1_get_data_device
\* (lines 729-730); with no manager bound that dereferences a null proxy and
\* the process is killed.
seat_name(s, name) ==
    /\ Running /\ Dispatch /\ UNCHANGED loopVars
    /\ s \in wayland_seat_list
    /\ last_handler' = "seat_name"
    /\ event' = [handler |-> "seat_name", arg |-> <<s, name>>]
    /\ IF name = remote_seat_name
       THEN LET create == should_create_virtual_pointer(virtual_pointer,
                              remote_output, Ref(s), input_forwarding_enabled,
                              force_grab_cursor_enabled)
                device == should_create_data_control_device(
                              data_control_device, Ref(s),
                              input_forwarding_enabled)
                deref == device /\ data_control_manager = NULL
            IN  /\ remote_seat' = Ref(s)
                /\ virtual_pointer' =
                       IF create
                       THEN create_virtual_pointer(remote_output, Ref(s))
                       ELSE virtual_pointer
                /\ data_control_device' =
                       IF device /\ ~deref
                       THEN create_data_control_device(Ref(s))
                       ELSE data_control_device
                /\ crashed' = deref
                /\ fault' = IF deref THEN "null dereference" ELSE "none"
                /\ effects' =
                       (IF create THEN create_virtual_pointer_effects
                        ELSE <<>>)
                       \o (IF device /\ ~deref
                           THEN create_data_control_device_effects
                           ELSE <<>>)
       ELSE /\ UNCHANGED <<remote_seat, virtual_pointer, data_control_device>>
            /\ NoFault
            /\ effects' = <<>>
    /\ UNCHANGED <<wayland_output_list, wayland_seat_list, remote_output,
                   data_control_manager, input_forwarding_enabled,
                   force_grab_cursor_enabled>>
    /\ UNCHANGED <<mapVars, titleVars, clipVars>>

\* destroy_output (lines 768-779), called by registry_global_remove
destroy_output(o) ==
    LET target == (Ref(o) = remote_output)
        destroy == target /\ virtual_pointer # NULL
    IN  /\ remote_output' = IF target THEN NULL ELSE remote_output
        /\ virtual_pointer' = IF destroy THEN NULL ELSE virtual_pointer
        /\ wayland_output_list' = wayland_output_list \ {o}
        /\ effects' =
               (IF destroy THEN destroy_virtual_pointer_effects ELSE <<>>)
               \o <<[op |-> "wl_output_destroy", arg |-> o]>>
        /\ UNCHANGED <<wayland_seat_list, remote_seat, data_control_device>>

\* lines 781-794 without the test and the call of lines 785-786
destroy_seat_keeps_device(s) ==
    LET target == (Ref(s) = remote_seat)
        destroy == target /\ virtual_pointer # NULL
    IN  /\ remote_seat' = IF target THEN NULL ELSE remote_seat
        /\ virtual_pointer' = IF destroy THEN NULL ELSE virtual_pointer
        /\ wayland_seat_list' = wayland_seat_list \ {s}
        /\ effects' =
               (IF destroy THEN destroy_virtual_pointer_effects ELSE <<>>)
               \o <<[op |-> "wl_seat_release", arg |-> s]>>
        /\ UNCHANGED <<wayland_output_list, remote_output,
                       data_control_device>>

\* destroy_seat (lines 781-794), called by registry_global_remove
destroy_seat(s) ==
    LET target == (Ref(s) = remote_seat)
        destroy == target /\ virtual_pointer # NULL
        device == target /\ data_control_device # NULL
    IN  /\ remote_seat' = IF target THEN NULL ELSE remote_seat
        /\ virtual_pointer' = IF destroy THEN NULL ELSE virtual_pointer
        /\ data_control_device' =
               IF device THEN NULL ELSE data_control_device
        /\ wayland_seat_list' = wayland_seat_list \ {s}
        /\ effects' =
               (IF destroy THEN destroy_virtual_pointer_effects ELSE <<>>)
               \o (IF device THEN destroy_data_control_device_effects
                   ELSE <<>>)
               \o <<[op |-> "wl_seat_release", arg |-> s]>>
        /\ UNCHANGED <<wayland_output_list, remote_output>>

\* registry_global_remove (lines 546-564): the outputs are searched first,
\* then the seats; an id that matches neither changes nothing
registry_global_remove(name) ==
    /\ Running /\ Dispatch /\ UNCHANGED loopVars
    /\ name \in GlobalIds
    /\ last_handler' = "registry_global_remove"
    /\ event' = [handler |-> "registry_global_remove", arg |-> name]
    /\ IF name \in wayland_output_list
       THEN destroy_output(name)
       ELSE IF name \in wayland_seat_list
       THEN destroy_seat(name)
       ELSE /\ effects' = <<>>
            /\ UNCHANGED <<wayland_output_list, wayland_seat_list,
                           remote_output, remote_seat, virtual_pointer,
                           data_control_device>>
    /\ UNCHANGED <<data_control_manager, input_forwarding_enabled,
                   force_grab_cursor_enabled>>
    /\ NoFault /\ UNCHANGED <<mapVars, titleVars, clipVars>>

\* data_control_device_finished (lines 408-413)
data_control_device_finished ==
    /\ Running /\ Dispatch /\ UNCHANGED loopVars
    /\ data_control_device # NULL
    /\ last_handler' = "data_control_device_finished"
    /\ event' = [handler |-> "data_control_device_finished", arg |-> <<>>]
    /\ data_control_device' = NULL
    /\ effects' = destroy_data_control_device_effects
    /\ UNCHANGED <<wayland_output_list, wayland_seat_list, remote_output,
                   remote_seat, virtual_pointer, data_control_manager,
                   input_forwarding_enabled, force_grab_cursor_enabled>>
    /\ NoFault /\ UNCHANGED <<mapVars, titleVars, clipVars>>

----------------------------------------------------------------------------
(* The two gating flags (lines 969-985) *)

\* pchg_wayland_remote_input_forwarding (lines 969-976)
pchg_wayland_remote_input_forwarding(value) ==
    /\ Running /\ Dispatch /\ UNCHANGED loopVars
    /\ value \in Flags
    /\ last_handler' = "pchg_wayland_remote_input_forwarding"
    /\ event' = [handler |-> "pchg_wayland_remote_input_forwarding",
                 arg |-> value]
    /\ LET destroy == value = 0 /\ virtual_pointer # NULL
           vp == IF destroy THEN NULL ELSE virtual_pointer
           create == should_create_virtual_pointer(vp, remote_output,
                         remote_seat, value, force_grab_cursor_enabled)
       IN  /\ input_forwarding_enabled' = value
           /\ virtual_pointer' =
                  IF create
                  THEN create_virtual_pointer(remote_output, remote_seat)
                  ELSE vp
           /\ effects' =
                  (IF destroy THEN destroy_virtual_pointer_effects ELSE <<>>)
                  \o (IF create THEN create_virtual_pointer_effects
                      ELSE <<>>)
    /\ UNCHANGED <<wayland_output_list, wayland_seat_list, remote_output,
                   remote_seat, data_control_manager, data_control_device,
                   force_grab_cursor_enabled>>
    /\ NoFault /\ UNCHANGED <<mapVars, titleVars, clipVars>>

\* pchg_wayland_remote_force_grab_cursor (lines 978-985)
pchg_wayland_remote_force_grab_cursor(value) ==
    /\ Running /\ Dispatch /\ UNCHANGED loopVars
    /\ value \in Flags
    /\ last_handler' = "pchg_wayland_remote_force_grab_cursor"
    /\ event' = [handler |-> "pchg_wayland_remote_force_grab_cursor",
                 arg |-> value]
    /\ LET destroy == value # 0 /\ virtual_pointer # NULL
           vp == IF destroy THEN NULL ELSE virtual_pointer
           create == should_create_virtual_pointer(vp, remote_output,
                         remote_seat, input_forwarding_enabled, value)
       IN  /\ force_grab_cursor_enabled' = value
           /\ virtual_pointer' =
                  IF create
                  THEN create_virtual_pointer(remote_output, remote_seat)
                  ELSE vp
           /\ effects' =
                  (IF destroy THEN destroy_virtual_pointer_effects ELSE <<>>)
                  \o (IF create THEN create_virtual_pointer_effects
                      ELSE <<>>)
    /\ UNCHANGED <<wayland_output_list, wayland_seat_list, remote_output,
                   remote_seat, data_control_manager, data_control_device,
                   input_forwarding_enabled>>
    /\ NoFault /\ UNCHANGED <<mapVars, titleVars, clipVars>>

----------------------------------------------------------------------------
(* Title synthesis (lines 156, 658-683) *)

MaxWindows == 2
WindowIds == 1 .. MaxWindows

\* sizeof(media_title)
MediaTitleSize == 512

RECURSIVE Repeat(_, _)
Repeat(c, n) ==
    IF n = 0 THEN ""
    ELSE IF n % 2 = 0
         THEN LET half == Repeat(c, n \div 2) IN half \o half
         ELSE c \o Repeat(c, n - 1)

\* a title longer than the media_title buffer
LongTitle == Repeat("x", MediaTitleSize)

Titles == {"Foo", LongTitle}
AppIds == {"bar"}
\* the state arrays a toplevel_handle_state event may carry
StateArrays == {<<>>, <<"activated">>, <<"fullscreen">>,
                <<"maximized", "fullscreen">>}

\* snprintf(buf, size, ...) of the formatted text s: at most size - 1
\* characters are stored
snprintf(size, s) ==
    IF Len(s) < size THEN s ELSE SubSeq(s, 1, size - 1)

\* the format of line 660 with the two window fields exchanged
fullscreen_title_text_swapped(app_id, title) ==
    "[" \o title \o "] " \o app_id \o " [" \o remote_display_name \o " "
        \o remote_output_name \o " " \o remote_seat_name \o "]"

\* the format of line 660
fullscreen_title_text(app_id, title) ==
    "[" \o app_id \o "] " \o title \o " [" \o remote_display_name \o " "
        \o remote_output_name \o " " \o remote_seat_name \o "]"

\* the format of line 668
generic_title_text ==
    "Remote desktop [" \o remote_display_name \o " " \o remote_output_name
        \o " " \o remote_seat_name \o "]"

\* line 682 without the fullscreen flag
is_eligible_toplevel_any_state(tl) ==
    tl.title # NULL /\ tl.app_id # NULL

\* is_eligible_toplevel (lines 678-683); visible_on_remote_output is not read
is_eligible_toplevel(tl) ==
    tl.title # NULL /\ tl.app_id # NULL /\ tl.fullscreen

\* set_fullscreen_title (lines 658-664), for the window tl that has just been
\* made current; `more` is what the caller sends afterwards
set_fullscreen_title(tl, more) ==
    LET text == snprintf(MediaTitleSize,
                    fullscreen_title_text(Deref(tl.app_id), Deref(tl.title)))
    IN  /\ media_title' = text
        /\ force_media_title' = text
        /\ effects' = <<set_property_string("force-media-title", text)>>
                       \o more

\* set_generic_title (lines 666-671)
set_generic_title(more) ==
    LET text == snprintf(MediaTitleSize, generic_title_text)
    IN  /\ media_title' = text
        /\ force_media_title' = text
        /\ effects' = <<set_property_string("force-media-title", text)>>
                       \o more

\* the fields of a handle the claims speak of, as of a done event
Attributes(tl) ==
    [title |-> tl.title, app_id |-> tl.app_id, fullscreen |-> tl.fullscreen]

Remove(f, x) == [y \in DOMAIN f \ {x} |-> f[y]]
Put(f, x, v) == [y \in DOMAIN f \cup {x} |-> IF y = x THEN v ELSE f[y]]

----------------------------------------------------------------------------
(* Foreign toplevel handles (lines 181-298, 708-720) *)

\* toplevel_manager_toplevel (lines 284-298): calloc zeroes the fields
toplevel_manager_toplevel(w) ==
    /\ Running /\ Dispatch /\ UNCHANGED loopVars
    /\ toplevel_manager # NULL
    /\ w \in WindowIds \ DOMAIN toplevels
    /\ last_handler' = "toplevel_manager_toplevel"
    /\ event' = [handler |-> "toplevel_manager_toplevel", arg |-> w]
    /\ toplevels' = Put(toplevels, w,
                        [title |-> NULL, app_id |-> NULL,
                         visible_on_remote_output |-> FALSE,
                         fullscreen |-> FALSE])
    /\ effects' = <<>>
    /\ UNCHANGED <<current_eligible_toplevel, media_title, force_media_title,
                   committed>>
    /\ NoFault /\ UNCHANGED <<gateVars, mapVars, clipVars>>

\* toplevel_handle_title (lines 181-188)
toplevel_handle_title(w, title) ==
    /\ Running /\ Dispatch /\ UNCHANGED loopVars
    /\ w \in DOMAIN toplevels
    /\ last_handler' = "toplevel_handle_title"
    /\ event' = [handler |-> "toplevel_handle_title", arg |-> w]
    /\ toplevels' = [toplevels EXCEPT ![w].title = Ref(title)]
    /\ effects' = <<>>
    /\ UNCHANGED <<current_eligible_toplevel, media_title, force_media_title,
                   committed>>
    /\ NoFault /\ UNCHANGED <<gateVars, mapVars, clipVars>>

\* toplevel_handle_app_id (lines 190-197)
toplevel_handle_app_id(w, app_id) ==
    /\ Running /\ Dispatch /\ UNCHANGED loopVars
    /\ w \in DOMAIN toplevels
    /\ last_handler' = "toplevel_handle_app_id"
    /\ event' = [handler |-> "toplevel_handle_app_id", arg |-> w]
    /\ toplevels' = [toplevels EXCEPT ![w].app_id = Ref(app_id)]
    /\ effects' = <<>>
    /\ UNCHANGED <<current_eligible_toplevel, media_title, force_media_title,
                   committed>>
    /\ NoFault /\ UNCHANGED <<gateVars, mapVars, clipVars>>

\* toplevel_handle_state (lines 225-239)
toplevel_handle_state(w, state) ==
    /\ Running /\ Dispatch /\ UNCHANGED loopVars
    /\ w \in DOMAIN toplevels
    /\ last_handler' = "toplevel_handle_state"
    /\ event' = [handler |-> "toplevel_handle_state", arg |-> w]
    /\ toplevels' = [toplevels EXCEPT ![w].fullscreen =
                         \E i \in 1 .. Len(state) : state[i] = "fullscreen"]
    /\ effects' = <<>>
    /\ UNCHANGED <<current_eligible_toplevel, media_title, force_media_title,
                   committed>>
    /\ NoFault /\ UNCHANGED <<gateVars, mapVars, clipVars>>

\* the test of line 247 left out
is_not_current_always(w) == TRUE

\* the test of line 247
is_not_current(w) == current_eligible_toplevel # Ref(w)

\* what `event` records of a done or closed event on window w: whether w was
\* the current eligible window, whether it was eligible, whether it was
\* eligible at its previous done, and whether its title, application id and
\* fullscreen flag were those of its previous done
HandleEvent(w) ==
    [w |-> w,
     committed_eligible |-> (w \in DOMAIN committed
                             /\ committed[w].title # NULL
                             /\ committed[w].app_id # NULL
                             /\ committed[w].fullscreen),
     was_current |-> (current_eligible_toplevel = Ref(w)),
     eligible |-> (toplevels[w].title # NULL /\ toplevels[w].app_id # NULL
                   /\ toplevels[w].fullscreen),
     title |-> toplevels[w].title,
     app_id |-> toplevels[w].app_id,
     unchanged |-> (w \in DOMAIN committed
                    /\ committed[w] = Attributes(toplevels[w]))]

\* toplevel_handle_done (lines 241-257)
toplevel_handle_done(w) ==
    /\ Running /\ Dispatch /\ UNCHANGED loopVars
    /\ w \in DOMAIN toplevels
    /\ last_handler' = "toplevel_handle_done"
    /\ event' = [handler |-> "toplevel_handle_done", arg |-> HandleEvent(w)]
    /\ committed' = Put(committed, w, Attributes(toplevels[w]))
    /\ IF is_eligible_toplevel(toplevels[w])
       THEN IF is_not_current(w)
            THEN /\ current_eligible_toplevel' = Ref(w)
                 /\ set_fullscreen_title(toplevels[w], <<>>)
            ELSE /\ effects' = <<>>
                 /\ UNCHANGED <<current_eligible_toplevel, media_title,
                                force_media_title>>
       ELSE IF current_eligible_toplevel = Ref(w)
            THEN /\ current_eligible_toplevel' = NULL
                 /\ set_generic_title(<<>>)
            ELSE /\ effects' = <<>>
                 /\ UNCHANGED <<current_eligible_toplevel, media_title,
                                force_media_title>>
    /\ UNCHANGED toplevels
    /\ NoFault /\ UNCHANGED <<gateVars, mapVars, clipVars>>

\* destroy_toplevel_handle without lines 710-713
destroy_toplevel_handle_no_title(w) ==
    /\ effects' = <<[op |-> "zwlr_foreign_toplevel_handle_v1_destroy",
                     arg |-> w]>>
    /\ UNCHANGED <<current_eligible_toplevel, media_title, force_media_title>>
    /\ toplevels' = Remove(toplevels, w)

\* destroy_toplevel_handle (lines 708-720)
destroy_toplevel_handle(w) ==
    LET destroy == <<[op |-> "zwlr_foreign_toplevel_handle_v1_destroy",
                      arg |-> w]>>
    IN  /\ IF current_eligible_toplevel = Ref(w)
           THEN /\ current_eligible_toplevel' = NULL
                /\ set_generic_title(destroy)
           ELSE /\ effects' = destroy
                /\ UNCHANGED <<current_eligible_toplevel, media_title,
                               force_media_title>>
        /\ toplevels' = Remove(toplevels, w)

\* toplevel_handle_closed (lines 259-265)
toplevel_handle_closed(w) ==
    /\ Running /\ Dispatch /\ UNCHANGED loopVars
    /\ w \in DOMAIN toplevels
    /\ last_handler' = "toplevel_handle_closed"
    /\ event' = [handler |-> "toplevel_handle_closed", arg |-> HandleEvent(w)]
    /\ destroy_toplevel_handle(w)
    /\ committed' = Remove(committed, w)
    /\ NoFault /\ UNCHANGED <<gateVars, mapVars, clipVars>>

----------------------------------------------------------------------------
(* Coordinate mapping (lines 616-656, 922-967, 1049-1116) *)

MaxMargin == 1
MaxFrame == 1
MaxPos == 2

\* scenario A of the specification
ScenarioOsd == [ml |-> 10, mr |-> 10, mt |-> 20, mb |-> 0,
                w |-> 220, h |-> 120]
ScenarioVideo == [w |-> 1920, h |-> 1080]
ScenarioMouse == [x |-> 100, y |-> 50]
ScenarioWarp == [x |-> 864, y |-> 324]

\* the osd-dimensions nodes the host reports: scenario A, a family of small
\* viewports whose margins leave a positive, zero or negative effective
\* size, and a node that carries only some of the keys
OsdNodes ==
    {ScenarioOsd, [w |-> 2, h |-> 1]}
    \cup {[ml |-> a, mr |-> b, mt |-> b, mb |-> a, w |-> 2, h |-> 1] :
              a \in 0 .. MaxMargin, b \in 0 .. MaxMargin}

\* the video-params nodes the host reports
VideoNodes ==
    {ScenarioVideo}
    \cup {[w |-> a, h |-> b] : a \in 0 .. MaxFrame, b \in 0 .. MaxFrame}

\* the mouse-pos values the host reports
MousePositions ==
    {ScenarioMouse}
    \cup {[x |-> a, y |-> b] : a \in (-1) .. MaxPos, b \in (-1) .. MaxPos}

\* the layout positions sway reports in cursor_warp events
WarpPositions ==
    {ScenarioWarp}
    \cup {[x |-> a, y |-> b] : a \in (-1) .. MaxPos, b \in (-1) .. MaxPos}

\* the rect origin of the target output in a get_outputs reply; NULL when
\* the reply is missing or does not list the output
LayoutReplies == {NULL, Ref([x |-> 0, y |-> 0]), Ref([x |-> 1, y |-> 1])}

Abs(a) == IF a < 0 THEN -a ELSE a

\* a / b with the quotient rounded away from zero
CDiv_away(a, b) ==
    IF b = 0 THEN 0
    ELSE LET q == (Abs(a) + Abs(b) - 1) \div Abs(b)
         IN  IF (a < 0) = (b < 0) THEN q ELSE -q

\* C's a / b: the quotient truncated toward zero.  For b = 0 the division is
\* undefined; the handlers record the fault, and the value here is the 0 of a
\* machine that does not trap.
CDiv(a, b) ==
    IF b = 0 THEN 0
    ELSE LET q == Abs(a) \div Abs(b)
         IN  IF (a < 0) = (b < 0) THEN q ELSE -q

\* osd_node_get_values, video_node_get_values (lines 616-656): the keys the
\* node carries are stored, the others keep their value
node_get_values(old, node) ==
    [k \in DOMAIN old |-> IF k \in DOMAIN node THEN node[k] ELSE old[k]]

\* pchg_osd_dimensions (lines 959-962)
pchg_osd_dimensions(node) ==
    /\ Running /\ Dispatch /\ UNCHANGED loopVars
    /\ node \in OsdNodes
    /\ last_handler' = "pchg_osd_dimensions"
    /\ event' = [handler |-> "pchg_osd_dimensions", arg |-> <<>>]
    /\ osd_v' = node_get_values(osd_v, node)
    /\ effects' = <<>>
    /\ UNCHANGED <<video_v, output_layout>>
    /\ NoFault /\ UNCHANGED <<gateVars, titleVars, clipVars>>

\* pchg_video_params (lines 964-967)
pchg_video_params(node) ==
    /\ Running /\ Dispatch /\ UNCHANGED loopVars
    /\ node \in VideoNodes
    /\ last_handler' = "pchg_video_params"
    /\ event' = [handler |-> "pchg_video_params", arg |-> <<>>]
    /\ video_v' = node_get_values(video_v, node)
    /\ effects' = <<>>
    /\ UNCHANGED <<osd_v, output_layout>>
    /\ NoFault /\ UNCHANGED <<gateVars, titleVars, clipVars>>

\* lines 929-930
denominator_x == osd_v.w - osd_v.ml - osd_v.mr
denominator_y == osd_v.h - osd_v.mt - osd_v.mb

\* the guard of line 932 testing the width only
mouse_pos_suppressed_x_only == denominator_x = 0

\* the guard of lines 932-933
mouse_pos_suppressed == denominator_x = 0 \/ denominator_y = 0

\* lines 935-942 with the near margin not subtracted
video_pos_no_margin(pos, margin, size, denominator) ==
    MIN(MAX(CDiv(pos * size, denominator), 0), size)

\* lines 935-942 without the upper clamp
video_pos_no_min(pos, margin, size, denominator) ==
    MAX(CDiv((pos - margin) * size, denominator), 0)

\* video_pos_x / video_pos_y (lines 935-942)
video_pos(pos, margin, size, denominator) ==
    MIN(MAX(CDiv((pos - margin) * size, denominator), 0), size)

\* zwlr_virtual_pointer_v1_motion_absolute (lines 944-945); the timestamp is
\* left out
motion_absolute(x, y, x_extent, y_extent) ==
    [op |-> "zwlr_virtual_pointer_v1_motion_absolute",
     arg |-> [x |-> x, y |-> y, x_extent |-> x_extent,
              y_extent |-> y_extent]]

frame == [op |-> "zwlr_virtual_pointer_v1_frame", arg |-> <<>>]

\* lines 944-945 with the frame of line 946 left out
pointer_motion_no_frame(x, y, x_extent, y_extent) ==
    <<motion_absolute(x, y, x_extent, y_extent)>>

\* the two requests one forwarded position sends on the pointer: the motion
\* of lines 944-945 and then the frame of line 946 (mpvif-motion: lines
\* 136-137 and line 138)
pointer_motion(x, y, x_extent, y_extent) ==
    <<motion_absolute(x, y, x_extent, y_extent), frame>>

\* the test of line 924 always passing
pointer_bound_always(pointer) == TRUE

\* the test of line 924
pointer_bound(pointer) == pointer # NULL

\* pchg_mouse_pos (lines 922-947)
pchg_mouse_pos(mouse_v) ==
    /\ Running /\ Dispatch /\ UNCHANGED loopVars
    /\ "mouse-pos" \notin observe_fails
    /\ mouse_v \in MousePositions
    /\ last_handler' = "pchg_mouse_pos"
    /\ event' = [handler |-> "pchg_mouse_pos", arg |-> mouse_v]
    /\ LET divides == pointer_bound(virtual_pointer) /\ ~mouse_pos_suppressed
       IN  /\ effects' =
                  IF divides
                  THEN pointer_motion(
                           video_pos(mouse_v.x, osd_v.ml, video_v.w,
                                     denominator_x),
                           video_pos(mouse_v.y, osd_v.mt, video_v.h,
                                     denominator_y),
                           video_v.w, video_v.h)
                  ELSE <<>>
           \* lines 935-936 divide; the guard keeps the divisors non-zero
           /\ fault' = IF divides /\ (denominator_x = 0 \/ denominator_y = 0)
                       THEN "division by zero" ELSE "none"
           /\ crashed' = FALSE
    /\ UNCHANGED <<gateVars, mapVars, titleVars, clipVars>>

\* update_output_layout_pos (lines 1049-1070), called by i3e_output
\* (lines 1072-1075)
i3e_output(reply) ==
    /\ Running /\ Dispatch /\ UNCHANGED loopVars
    /\ reply \in LayoutReplies
    /\ last_handler' = "i3e_output"
    /\ event' = [handler |-> "i3e_output", arg |-> <<>>]
    /\ output_layout' = IF reply = NULL THEN output_layout ELSE Deref(reply)
    /\ effects' = <<[op |-> "i3ipc_get_outputs", arg |-> <<>>]>>
    /\ UNCHANGED <<osd_v, video_v>>
    /\ NoFault /\ UNCHANGED <<gateVars, titleVars, clipVars>>

\* the clamps of lines 1109-1113
mouse_pos_clamp(pos, size) == MIN(MAX(pos, 0), size)

\* set_mpv_mouse_pos (lines 1077-1097)
set_mpv_mouse_pos(x, y) ==
    [op |-> "mpv_set_property",
     arg |-> [name |-> "mouse-pos", x |-> x, y |-> y, hover |-> 1]]

\* what a division by zero may do: the process is killed (SIGFPE), or the
\* instruction yields 0 and execution goes on
DivisionFaults == {"trap", "zero"}

\* i3e_cursor_warp (lines 1099-1116).  Lines 1106-1107 divide by video_v.w
\* and video_v.h with no test; a zero divisor is undefined behaviour, whose
\* outcome is `outcome`.
i3e_cursor_warp(ev, outcome) ==
    /\ Running /\ Dispatch /\ UNCHANGED loopVars
    /\ ev \in WarpPositions
    /\ outcome \in DivisionFaults
    /\ last_handler' = "i3e_cursor_warp"
    /\ event' = [handler |-> "i3e_cursor_warp", arg |-> ev]
    /\ LET output_local_x == ev.x - output_layout.x
           output_local_y == ev.y - output_layout.y
           zero == video_v.w = 0 \/ video_v.h = 0
           quotient_x == CDiv(output_local_x * denominator_x, video_v.w)
           quotient_y == CDiv(output_local_y * denominator_y, video_v.h)
           mouse_pos_x == mouse_pos_clamp(quotient_x + osd_v.ml, osd_v.w)
           mouse_pos_y == mouse_pos_clamp(quotient_y + osd_v.mt, osd_v.h)
       IN  \* one step when no divisor is zero
           /\ ~zero => outcome = "zero"
           /\ fault' = IF zero THEN "division by zero" ELSE "none"
           /\ crashed' = (zero /\ outcome = "trap")
           /\ effects' = IF zero /\ outcome = "trap" THEN <<>>
                         ELSE <<set_mpv_mouse_pos(mouse_pos_x, mouse_pos_y)>>
    /\ UNCHANGED <<gateVars, mapVars, titleVars, clipVars>>

----------------------------------------------------------------------------
(* Remote offers (lines 51-70, 355-399, 760-766, 796-865) *)

MaxOffers == 2
MaxMimes == 2
MaxPayload == 2

OfferIds == 1 .. MaxOffers

utf8_mimes == <<"text/plain;charset=utf-8", "text/plain", "TEXT", "STRING",
                "UTF8_STRING">>

\* sizeof(custom_mime_type_name)
CustomMimeSize == 24

\* line 1251, for one value of arc4random()
custom_mime_type_name == snprintf(CustomMimeSize, "x-mpvif-plugin-0badcafe")

\* the MIME types a remote offer may announce
MimeTypes ==
    {utf8_mimes[i] : i \in 1 .. Len(utf8_mimes)}
    \cup {custom_mime_type_name, "image/png"}

\* the bytes a transfer may carry: NUL and "a"
Bytes == {0, 97}
Payloads == UNION {[1 .. n -> Bytes] : n \in 0 .. MaxPayload}

\* how the calls of receive_offer end: pipe2 fails, open_memstream fails,
\* read fails, or read reaches end-of-file after the whole payload
ReceiveOutcomes == {"pipe2", "open_memstream", "read", "eof"}

Range(f) == {f[i] : i \in DOMAIN f}

\* the C string held in a buffer: the bytes before the first NUL
CString(buf) ==
    LET nul == {i \in 1 .. Len(buf) : buf[i] = 0}
    IN  IF nul = {} THEN buf
        ELSE SubSeq(buf, 1, (CHOOSE i \in nul : \A j \in nul : i <= j) - 1)

\* the MIME types update_remote_selection offers on a source, without the
\* marker
source_mimes_no_marker == utf8_mimes

\* the MIME types update_remote_selection offers on a source, in the order
\* of lines 883-885
source_mimes == <<custom_mime_type_name>> \o utf8_mimes

\* what the remote may describe by a new offer: a selection of another
\* client (NULL), or a source of ours that it holds as a selection
Origins ==
    {NULL} \cup {Ref([primary |-> r, source |-> Deref(published[r]).source,
                      echo |-> Deref(published[r]).echo]) :
                     r \in {q \in BOOLEAN : published[q] # NULL}}

\* data_control_device_data_offer (lines 389-399): id is the new offer object,
\* or NULL; origin is the selection the remote describes by it
data_control_device_data_offer(id, origin) ==
    /\ Running /\ Dispatch /\ UNCHANGED loopVars
    /\ data_control_device # NULL
    /\ id # NULL => Deref(id) \in OfferIds \ offers
    /\ origin \in Origins
    /\ id = NULL => origin = NULL
    /\ last_handler' = "data_control_device_data_offer"
    /\ event' = [handler |-> "data_control_device_data_offer", arg |-> id]
    /\ IF id = NULL
       THEN UNCHANGED <<dc_offer, offers, announced, offer_origin>>
       ELSE /\ dc_offer' = id
            /\ offers' = offers \cup {Deref(id)}
            /\ announced' = <<>>
            /\ offer_origin' = [offer_origin EXCEPT ![Deref(id)] = origin]
    /\ effects' = <<>>
    /\ UNCHANGED <<selection_source, primary_selection_source,
                   dc_offer_mime_idx, dc_offer_is_our_own, next_source,
                   published>>
    /\ NoFault /\ UNCHANGED <<gateVars, mapVars, titleVars>>

\* the loop of lines 377-382: the new dc_offer_mime_idx
mime_idx(idx, mime_type) ==
    LET match == {i \in 0 .. Len(utf8_mimes) - 1 :
                      mime_type = utf8_mimes[i + 1]}
    IN  IF match = {} THEN idx ELSE CHOOSE i \in match : TRUE

\* the test of line 367
is_custom_mime(mime_type) == mime_type = custom_mime_type_name

\* data_control_offer_offer (lines 355-383)
data_control_offer_offer(id, mime_type) ==
    /\ Running /\ Dispatch /\ UNCHANGED loopVars
    /\ id \in offers
    /\ mime_type \in MimeTypes
    \* an offer that describes a source of ours announces what was offered
    \* on the source, in that order; another offer announces up to MaxMimes
    \* types
    /\ Ref(id) = dc_offer =>
           IF offer_origin[id] = NULL THEN Len(announced) < MaxMimes
           ELSE /\ Len(announced) < Len(source_mimes)
                /\ mime_type = source_mimes[Len(announced) + 1]
    /\ last_handler' = "data_control_offer_offer"
    /\ event' = [handler |-> "data_control_offer_offer", arg |-> id]
    /\ announced' = IF Ref(id) = dc_offer THEN Append(announced, mime_type)
                    ELSE announced
    /\ IF Ref(id) # dc_offer
       THEN UNCHANGED <<dc_offer_mime_idx, dc_offer_is_our_own>>
       ELSE IF dc_offer_is_our_own
       THEN UNCHANGED <<dc_offer_mime_idx, dc_offer_is_our_own>>
       ELSE IF is_custom_mime(mime_type)
       THEN /\ dc_offer_is_our_own' = TRUE
            /\ UNCHANGED dc_offer_mime_idx
       ELSE IF dc_offer_mime_idx = 0
       THEN UNCHANGED <<dc_offer_mime_idx, dc_offer_is_our_own>>
       ELSE /\ dc_offer_mime_idx' = mime_idx(dc_offer_mime_idx, mime_type)
            /\ UNCHANGED dc_offer_is_our_own
    /\ effects' = <<>>
    /\ UNCHANGED <<selection_source, primary_selection_source, dc_offer,
                   offers, next_source, published, offer_origin>>
    /\ NoFault /\ UNCHANGED <<gateVars, mapVars, titleVars>>

\* the buffer of the memory stream when it is closed: the bytes read
\* (line 834) and the byte written by line 837
mem_data(payload) == payload \o <<0>>

\* the size open_memstream reports for the buffer: every byte written
mem_size(payload) == Len(mem_data(payload))

\* the test of line 842
should_set_clipboard(payload) == mem_size(payload) # 0

\* receive_offer that sets the property with what it has whenever the
\* request was sent
receive_offer_push_on_read_failure(primary, outcome, payload) ==
    LET request ==
            <<[op |-> "ext_data_control_offer_v1_receive",
               arg |-> <<Deref(dc_offer), utf8_mimes[dc_offer_mime_idx + 1]>>],
              [op |-> "wl_display_flush", arg |-> <<>>]>>
        prop == IF primary THEN "clipboard/text-primary" ELSE "clipboard/text"
    IN  IF outcome = "pipe2" THEN <<logger("pipe2() failed: %m")>>
        ELSE IF outcome = "open_memstream"
        THEN <<logger("open_memstream() failed: %m")>>
        ELSE request
             \o (IF outcome = "read" THEN <<logger("read() failed: %m")>>
                 ELSE <<>>)
             \o <<set_property_string(prop, CString(mem_data(payload)))>>

\* receive_offer (lines 796-846): what it sends and sets
receive_offer(primary, outcome, payload) ==
    LET request ==
            <<[op |-> "ext_data_control_offer_v1_receive",
               arg |-> <<Deref(dc_offer), utf8_mimes[dc_offer_mime_idx + 1]>>],
              [op |-> "wl_display_flush", arg |-> <<>>]>>
        prop == IF primary THEN "clipboard/text-primary" ELSE "clipboard/text"
    IN  IF outcome = "pipe2" THEN <<logger("pipe2() failed: %m")>>
        ELSE IF outcome = "open_memstream"
        THEN <<logger("open_memstream() failed: %m")>>
        ELSE IF outcome = "read"
        THEN request \o <<logger("read() failed: %m")>>
        ELSE IF should_set_clipboard(payload)
        THEN request
             \o <<set_property_string(prop, CString(mem_data(payload)))>>
        ELSE request

\* the test of line 861 without the self-origin flag
should_receive_any(own, idx) == idx # -1

\* the test of line 861
should_receive(own, idx) == ~own /\ idx # -1

\* the tracked offer is left in place unless the selection was cleared
destroys_offer_null_only(id, tracked_offer) ==
    tracked_offer # NULL /\ id = NULL

\* the tracked offer is destroyed whatever offer the selection names
destroys_offer_any_id(id, tracked_offer) ==
    tracked_offer # NULL

\* whether handle_selection reaches one of its two destroy_dc_offer calls
\* (lines 851-853 and 864): some offer is tracked, and the selection is
\* either cleared or is that offer
destroys_offer(id, tracked_offer) ==
    tracked_offer # NULL /\ (id = NULL \/ id = tracked_offer)

\* handle_selection (lines 848-865), called by data_control_device_selection
\* and data_control_device_primary_selection (lines 401-420); destroy_dc_offer
\* is lines 760-766
handle_selection(id, primary, outcome, payload) ==
    /\ Running /\ Dispatch /\ UNCHANGED loopVars
    /\ data_control_device # NULL
    /\ id # NULL => Deref(id) \in offers
    /\ primary \in BOOLEAN
    \* the remote commits an offer that describes a source of ours for the
    \* role of that source, after all its announcements
    /\ (id # NULL /\ offer_origin[Deref(id)] # NULL) =>
           /\ primary = Deref(offer_origin[Deref(id)]).primary
           /\ id = dc_offer => Len(announced) = Len(source_mimes)
    /\ outcome \in ReceiveOutcomes
    /\ payload \in Payloads
    /\ LET receive == id # NULL /\ id = dc_offer
                      /\ should_receive(dc_offer_is_our_own,
                                        dc_offer_mime_idx)
           destroy == destroys_offer(id, dc_offer)
           \* the test of line 857
           unexpected == id # NULL /\ id # dc_offer
       IN  \* one step for each way the handler can run
           /\ ~receive => (outcome = "eof" /\ payload = <<>>)
           /\ (receive /\ outcome # "eof") => payload = <<>>
           /\ last_handler' = "handle_selection"
           /\ event' = [handler |-> "handle_selection",
                        arg |-> [id |-> id, primary |-> primary,
                                 tracked |-> (id # NULL /\ id = dc_offer),
                                 announced |-> announced,
                                 mime_idx |-> dc_offer_mime_idx,
                                 own |-> dc_offer_is_our_own,
                                 origin |-> IF id = NULL THEN NULL
                                            ELSE offer_origin[Deref(id)],
                                 received |-> receive,
                                 outcome |-> outcome, payload |-> payload]]
           /\ effects' =
                  (IF unexpected
                   THEN <<logger("unexpected data offer offer event, "
                                 \o "shouldn't happen")>>
                   ELSE <<>>)
                  \o (IF receive
                      THEN receive_offer(primary, outcome, payload)
                      ELSE <<>>)
                  \o (IF destroy
                      THEN <<[op |-> "ext_data_control_offer_v1_destroy",
                              arg |-> Deref(dc_offer)]>>
                      ELSE <<>>)
           /\ IF destroy
              THEN /\ offers' = offers \ {Deref(dc_offer)}
                   /\ dc_offer' = NULL
                   /\ dc_offer_mime_idx' = -1
                   /\ dc_offer_is_our_own' = FALSE
                   /\ announced' = <<>>
                   /\ offer_origin' =
                          [offer_origin EXCEPT ![Deref(dc_offer)] = NULL]
              ELSE UNCHANGED <<offers, dc_offer, dc_offer_mime_idx,
                               dc_offer_is_our_own, announced, offer_origin>>
    /\ UNCHANGED <<selection_source, primary_selection_source, next_source,
                   published>>
    /\ NoFault /\ UNCHANGED <<gateVars, mapVars, titleVars>>

----------------------------------------------------------------------------
(* Host selection changes (lines 311-348, 590-593, 751-758, 867-957) *)

MaxSources == 3

\* the source objects: an object that was destroyed may be created again
SourceIds == 1 .. MaxSources

\* the values the host may report for clipboard/text and
\* clipboard/text-primary: no string, the empty string and "a"
HostTexts == {NULL, Ref(<<>>), Ref(<<97>>)}

\* the types a foreign offer announces, the ways its receive ends and the
\* payloads it carries under SpecSel
SelMimeTypes == {"text/plain", "image/png"}
SelOutcomes == {"read", "eof"}
SelPayloads == {<<>>, <<97>>}
\* the offer objects under SpecSel: one offer at a time
SelOfferIds == {1}

\* a string counts as set as soon as the pointer is not NULL
str_is_set_non_null(str) == str # NULL

\* str_is_set (lines 590-593)
str_is_set(str) == str # NULL /\ Len(Deref(str)) # 0

\* the slot of a role: selection_source or primary_selection_source
Slot(primary) ==
    IF primary THEN primary_selection_source ELSE selection_source

\* ext_data_control_device_v1_set_selection or _set_primary_selection
\* (lines 898-899, 906-907, 915-919)
set_selection(primary, source) ==
    [op |-> IF primary THEN "ext_data_control_device_v1_set_primary_selection"
            ELSE "ext_data_control_device_v1_set_selection",
     arg |-> source]

\* an assignment to the obj field of a slot (lines 754, 896, 904)
store(primary, source) ==
    [op |-> IF primary THEN "primary_selection_source.obj ="
            ELSE "selection_source.obj =",
     arg |-> source]

\* destroy_data_control_source (lines 751-758) on the object obj
source_destroy(obj) ==
    [op |-> "ext_data_control_source_v1_destroy", arg |-> obj]

\* the previous source is destroyed through the slot before the new one is
\* stored and published
update_remote_selection_calls_destroy_first(n, primary, old_source) ==
    <<[op |-> "ext_data_control_manager_v1_create_data_source", arg |-> n]>>
    \o [i \in 1 .. Len(source_mimes) |->
            [op |-> "ext_data_control_source_v1_offer",
             arg |-> <<n, source_mimes[i]>>]]
    \o (IF old_source.obj # NULL
        THEN <<source_destroy(Deref(old_source.obj)), store(primary, NULL)>>
        ELSE <<>>)
    \o <<store(primary, Ref(n)), set_selection(primary, Ref(n))>>

\* lines 880-909 of update_remote_selection: what they send and store for
\* the new source n when old_source is the copy of the slot
update_remote_selection_calls(n, primary, old_source) ==
    <<[op |-> "ext_data_control_manager_v1_create_data_source", arg |-> n]>>
    \o [i \in 1 .. Len(source_mimes) |->
            [op |-> "ext_data_control_source_v1_offer",
             arg |-> <<n, source_mimes[i]>>]]
    \o <<store(primary, Ref(n)), set_selection(primary, Ref(n))>>
    \o (IF old_source.obj # NULL
        THEN <<source_destroy(Deref(old_source.obj))>>
        ELSE <<>>)

\* whether the step before this one pushed this text to the host for this
\* role: then the host reports its own change back
IsEcho(selection_text, primary) ==
    /\ event.handler = "handle_selection"
    /\ event.arg.primary = primary
    /\ \E i \in 1 .. Len(effects) :
           /\ effects[i].op = "mpv_set_property_string"
           /\ effects[i].arg[2] = Deref(selection_text)

\* update_remote_selection (lines 867-920); dup_ok tells whether strdup
\* returns a copy
update_remote_selection(selection_text, primary, dup_ok) ==
    IF data_control_device = NULL
    THEN /\ dup_ok
         /\ effects' = <<>>
         /\ UNCHANGED <<selection_source, primary_selection_source,
                        next_source, published>>
    ELSE IF ~str_is_set(selection_text) \/ ~dup_ok
    THEN \* set_null
         /\ ~str_is_set(selection_text) => dup_ok
         /\ effects' = <<set_selection(primary, NULL)>>
         /\ published' = [published EXCEPT ![primary] = NULL]
         /\ UNCHANGED <<selection_source, primary_selection_source,
                        next_source>>
    ELSE LET free == {i \in SourceIds : /\ selection_source.obj # Ref(i)
                                         /\ primary_selection_source.obj
                                                # Ref(i)}
             n == CHOOSE i \in free : \A j \in free : i <= j
             new_source == [obj |-> Ref(n), text |-> selection_text,
                            len |-> Len(Deref(selection_text))]
         IN  /\ free # {}
             /\ next_source' = n
             /\ effects' = update_remote_selection_calls(n, primary,
                                                         Slot(primary))
             /\ IF primary
                THEN /\ primary_selection_source' = new_source
                     /\ UNCHANGED selection_source
                ELSE /\ selection_source' = new_source
                     /\ UNCHANGED primary_selection_source
             /\ published' =
                    [published EXCEPT ![primary] =
                         Ref([source |-> n,
                              echo |-> IsEcho(selection_text, primary)])]

\* pchg_clipboard_text (lines 949-952)
pchg_clipboard_text(string, dup_ok) ==
    /\ Running /\ Dispatch /\ UNCHANGED loopVars
    /\ "clipboard/text" \notin observe_fails
    /\ string \in HostTexts
    /\ last_handler' = "pchg_clipboard_text"
    /\ event' = [handler |-> "pchg_clipboard_text",
                 arg |-> [string |-> string, dup_ok |-> dup_ok,
                          device |-> data_control_device # NULL,
                          old |-> selection_source,
                          other |-> primary_selection_source]]
    /\ update_remote_selection(string, FALSE, dup_ok)
    /\ UNCHANGED <<dc_offer, dc_offer_mime_idx, dc_offer_is_our_own, offers,
                   announced, offer_origin>>
    /\ NoFault /\ UNCHANGED <<gateVars, mapVars, titleVars>>

\* pchg_clipboard_text_primary (lines 954-957)
pchg_clipboard_text_primary(string, dup_ok) ==
    /\ Running /\ Dispatch /\ UNCHANGED loopVars
    /\ "clipboard/text-primary" \notin observe_fails
    /\ string \in HostTexts
    /\ last_handler' = "pchg_clipboard_text_primary"
    /\ event' = [handler |-> "pchg_clipboard_text_primary",
                 arg |-> [string |-> string, dup_ok |-> dup_ok,
                          device |-> data_control_device # NULL,
                          old |-> primary_selection_source,
                          other |-> selection_source]]
    /\ update_remote_selection(string, TRUE, dup_ok)
    /\ UNCHANGED <<dc_offer, dc_offer_mime_idx, dc_offer_is_our_own, offers,
                   announced, offer_origin>>
    /\ NoFault /\ UNCHANGED <<gateVars, mapVars, titleVars>>

\* data_control_source_cancelled (lines 342-348) for the source held in the
\* slot of the role: the remote has replaced it as the selection
data_control_source_cancelled(primary) ==
    /\ Running /\ Dispatch /\ UNCHANGED loopVars
    /\ Slot(primary).obj # NULL
    /\ last_handler' = "data_control_source_cancelled"
    /\ event' = [handler |-> "data_control_source_cancelled",
                 arg |-> primary]
    /\ effects' = <<source_destroy(Deref(Slot(primary).obj)),
                    store(primary, NULL)>>
    /\ IF primary
       THEN /\ primary_selection_source' =
                   [obj |-> NULL, text |-> NULL, len |-> 0]
            /\ UNCHANGED selection_source
       ELSE /\ selection_source' = [obj |-> NULL, text |-> NULL, len |-> 0]
            /\ UNCHANGED primary_selection_source
    /\ published' = [published EXCEPT ![primary] = NULL]
    /\ UNCHANGED <<dc_offer, dc_offer_mime_idx, dc_offer_is_our_own, offers,
                   announced, offer_origin, next_source>>
    /\ NoFault /\ UNCHANGED <<gateVars, mapVars, titleVars>>

----------------------------------------------------------------------------
(* Teardown (lines 1309-1359) *)

\* the elements of a finite set of integers, in ascending order: the order in
\* which the model walks the lists of lines 1315-1325
RECURSIVE Ascending(_)
Ascending(S) ==
    IF S = {} THEN <<>>
    ELSE LET m == CHOOSE x \in S : \A y \in S : x <= y
         IN  <<m>> \o Ascending(S \ {m})

\* the calls of F on each element of seq, one after the other
RECURSIVE ForEach(_, _)
ForEach(F(_), seq) ==
    IF seq = <<>> THEN <<>> ELSE F(Head(seq)) \o ForEach(F, Tail(seq))

\* unset_title (lines 673-676)
unset_title == set_property_string("force-media-title", "")

\* what lines 1309-1349 send and set when outs and seats are the tracked
\* globals, dcm, tlm and vpm the three managers, display tells whether the
\* connection exists and pipe whether the wake pipe is open
teardown_calls(outs, seats, dcm, tlm, vpm, display, pipe) ==
    LET out_hit == /\ virtual_pointer # NULL
                   /\ \E o \in outs : Ref(o) = remote_output
        vp1 == IF out_hit THEN NULL ELSE virtual_pointer
        seat_hit == \E t \in seats : Ref(t) = remote_seat
        vp2 == IF seat_hit THEN NULL ELSE vp1
        dev1 == IF seat_hit THEN NULL ELSE data_control_device
        output_calls(o) ==
            (IF Ref(o) = remote_output /\ virtual_pointer # NULL
             THEN destroy_virtual_pointer_effects ELSE <<>>)
            \o <<[op |-> "wl_output_destroy", arg |-> o]>>
        seat_calls(t) ==
            (IF Ref(t) = remote_seat /\ vp1 # NULL
             THEN destroy_virtual_pointer_effects ELSE <<>>)
            \o (IF Ref(t) = remote_seat /\ data_control_device # NULL
                THEN destroy_data_control_device_effects ELSE <<>>)
            \o <<[op |-> "wl_seat_release", arg |-> t]>>
        window_calls(w) ==
            (IF current_eligible_toplevel = Ref(w)
             THEN <<set_property_string("force-media-title",
                        snprintf(MediaTitleSize, generic_title_text))>>
             ELSE <<>>)
            \o <<[op |-> "zwlr_foreign_toplevel_handle_v1_destroy",
                   arg |-> w]>>
    IN  (IF pipe THEN <<[op |-> "close", arg |-> "wakeup_pipe"]>> ELSE <<>>)
        \o ForEach(output_calls, Ascending(outs))
        \o ForEach(seat_calls, Ascending(seats))
        \o ForEach(window_calls, Ascending(DOMAIN toplevels))
        \o (IF selection_source.obj # NULL
            THEN <<source_destroy(Deref(selection_source.obj))>> ELSE <<>>)
        \o (IF primary_selection_source.obj # NULL
            THEN <<source_destroy(Deref(primary_selection_source.obj))>>
            ELSE <<>>)
        \o (IF dev1 # NULL THEN destroy_data_control_device_effects
            ELSE <<>>)
        \o (IF dcm # NULL
            THEN <<[op |-> "ext_data_control_manager_v1_destroy",
                    arg |-> <<>>]>>
            ELSE <<>>)
        \o (IF tlm # NULL
            THEN <<[op |-> "zwlr_foreign_toplevel_manager_v1_stop",
                    arg |-> <<>>]>>
            ELSE <<>>)
        \o (IF vp2 # NULL THEN destroy_virtual_pointer_effects ELSE <<>>)
        \o (IF vpm # NULL
            THEN <<[op |-> "zwlr_virtual_pointer_manager_v1_destroy",
                    arg |-> <<>>]>>
            ELSE <<>>)
        \o (IF display
            THEN <<[op |-> "wl_display_disconnect", arg |-> <<>>]>>
            ELSE <<>>)
        \o <<unset_title>>

\* the statics lines 1309-1349 leave behind; buffer is what media_title
\* held when teardown began
teardown_state(buffer) ==
    /\ wayland_output_list' = {}
    /\ wayland_seat_list' = {}
    /\ remote_output' = NULL
    /\ remote_seat' = NULL
    /\ virtual_pointer' = NULL
    /\ data_control_device' = NULL
    /\ toplevels' = <<>>
    /\ committed' = <<>>
    /\ current_eligible_toplevel' = NULL
    /\ media_title' = IF current_eligible_toplevel # NULL
                      THEN snprintf(MediaTitleSize, generic_title_text)
                      ELSE buffer
    /\ force_media_title' = ""
    /\ selection_source' = [obj |-> NULL, text |-> NULL, len |-> 0]
    /\ primary_selection_source' = [obj |-> NULL, text |-> NULL, len |-> 0]
    /\ published' = [r \in BOOLEAN |-> NULL]

----------------------------------------------------------------------------
(* The reactor loop (lines 1262-1307) *)

\* what one poll call reports: failed tells that poll returned -1; in and
\* err tell, for the display connection (0), the wake pipe (1) and the
\* window-manager socket (2), whether revents holds POLLIN and whether it
\* holds one of POLLERR, POLLHUP, POLLNVAL; shutdown and i3shutdown tell
\* whether dispatch_mpv_events and dispatch_i3ipc_events find a shutdown
\* event (lines 1028-1047, 1118-1141).  The window-manager socket is taken
\* to be set.
Quiet ==
    [failed |-> FALSE, in0 |-> FALSE, err0 |-> FALSE, in1 |-> FALSE,
     err1 |-> FALSE, shutdown |-> FALSE, in2 |-> FALSE, err2 |-> FALSE,
     i3shutdown |-> FALSE]

PollResults ==
    {[Quiet EXCEPT !.failed = TRUE],
     [Quiet EXCEPT !.in0 = TRUE],
     [Quiet EXCEPT !.in1 = TRUE],
     [Quiet EXCEPT !.err0 = TRUE],
     [Quiet EXCEPT !.in0 = TRUE, !.err0 = TRUE],
     [Quiet EXCEPT !.err1 = TRUE],
     [Quiet EXCEPT !.err2 = TRUE],
     [Quiet EXCEPT !.in1 = TRUE, !.shutdown = TRUE],
     [Quiet EXCEPT !.in2 = TRUE, !.i3shutdown = TRUE],
     [Quiet EXCEPT !.in1 = TRUE, !.shutdown = TRUE, !.err0 = TRUE],
     [Quiet EXCEPT !.in1 = TRUE, !.shutdown = TRUE, !.err2 = TRUE],
     [Quiet EXCEPT !.in2 = TRUE, !.i3shutdown = TRUE, !.err1 = TRUE],
     [Quiet EXCEPT !.in2 = TRUE, !.err2 = TRUE]}

\* the loop is left only for a failed poll and for the two shutdown events
loop_ends_no_hangup(p) ==
    \/ p.failed
    \/ ~p.err0 /\ p.in1 /\ p.shutdown
    \/ ~p.err0 /\ ~p.err1 /\ p.in2 /\ p.i3shutdown

\* whether the iteration reaches one of the breaks of lines 1271-1306
loop_ends(p) ==
    \/ p.failed
    \/ p.err0
    \/ p.in1 /\ p.shutdown
    \/ p.err1
    \/ p.in2 /\ p.i3shutdown
    \/ p.err2

\* every break but the one for a failed poll assigns 0
loop_rc_zero_unless_poll_failed(p, old) ==
    IF p.failed THEN old ELSE 0

\* the value of rc when the iteration leaves the loop, old being its value
\* before: the tests run in the order of lines 1271-1306 and only the two
\* shutdown breaks assign it (lines 1287, 1299)
loop_rc(p, old) ==
    IF p.failed THEN old
    ELSE IF p.err0 THEN old
    ELSE IF p.in1 /\ p.shutdown THEN 0
    ELSE IF p.err1 THEN old
    ELSE IF p.in2 /\ p.i3shutdown THEN 0
    ELSE old

\* what the iteration logs on its way out (lines 1272, 1280, 1293, 1305)
loop_log(p) ==
    IF p.failed THEN <<logger("poll() failed: %m")>>
    ELSE IF p.err0 THEN <<logger("error or hangup on display fd")>>
    ELSE IF p.in1 /\ p.shutdown THEN <<>>
    ELSE IF p.err1 THEN <<logger("error or hangup on wakeup pipe read fd")>>
    ELSE IF p.in2 /\ p.i3shutdown THEN <<>>
    ELSE IF p.err2 THEN <<logger("error or hangup on i3ipc read fd")>>
    ELSE <<>>

\* one iteration of the loop of lines 1268-1307 as far as its control flow
\* goes (the handlers it dispatches are the other actions), followed by
\* lines 1309-1359 when it leaves the loop
reactor_poll(p) ==
    /\ Running
    /\ reactor = "poll" /\ UNCHANGED wakeVars
    /\ p \in PollResults
    /\ last_handler' = "poll"
    /\ event' = [handler |-> "poll", arg |-> p]
    /\ IF loop_ends(p)
       THEN /\ pc' = "done"
            /\ rc' = loop_rc(p, rc)
            /\ effects' =
                   <<[op |-> "wl_display_flush", arg |-> <<>>],
                     [op |-> "poll", arg |-> <<>>]>>
                   \o loop_log(p)
                   \o teardown_calls(wayland_output_list, wayland_seat_list,
                                     data_control_manager, toplevel_manager,
                                     virtual_pointer_manager, TRUE, TRUE)
            /\ teardown_state(media_title)
       ELSE /\ effects' = <<[op |-> "wl_display_flush", arg |-> <<>>],
                            [op |-> "poll", arg |-> <<>>]>>
            /\ UNCHANGED <<pc, rc, wayland_output_list, wayland_seat_list,
                           remote_output, remote_seat, virtual_pointer,
                           data_control_device, titleVars, selection_source,
                           primary_selection_source, published>>
    /\ UNCHANGED <<data_control_manager, input_forwarding_enabled,
                   force_grab_cursor_enabled, mapVars, dc_offer,
                   dc_offer_mime_idx, dc_offer_is_our_own, offers, announced,
                   next_source, offer_origin, virtual_pointer_manager,
                   toplevel_manager, observe_fails, motion>>
    /\ NoFault

----------------------------------------------------------------------------
(* Startup (lines 1143-1260) *)

\* the globals of the remote that registry_global binds to one of the three
\* manager statics (lines 506-521)
Managers == {"zwlr_virtual_pointer_manager_v1",
             "zwlr_foreign_toplevel_manager_v1",
             "ext_data_control_manager_v1"}

\* the properties observed before the loop, in the order of lines 1221-1240
StartupObserved == <<"osd-dimensions", "video-params",
                     "wayland-remote-input-forwarding",
                     "wayland-remote-force-grab-cursor">>

\* what startup meets: the three name properties as the host returns them,
\* whether wl_display_connect and wl_display_get_registry return an object,
\* the managers, outputs and seats the remote advertises during the
\* roundtrip of line 1186, the two flags the host reports and whether pipe2
\* succeeds
GoodStart ==
    [display_name |-> Ref(remote_display_name),
     output_name |-> Ref(remote_output_name),
     seat_name |-> Ref(remote_seat_name),
     connect |-> TRUE, registry |-> TRUE, advertised |-> Managers,
     outputs |-> {}, seats |-> {}, fwd |-> 1, grab |-> 0, pipe |-> TRUE]

StartInputs ==
    {[GoodStart EXCEPT !.advertised = a, !.outputs = g[1], !.seats = g[2],
                       !.fwd = f, !.grab = h] :
         a \in {Managers} \cup {Managers \ {m} : m \in Managers},
         g \in {<<{}, {}>>, <<{1}, {MaxOutputs + 1}>>},
         f \in Flags, h \in Flags}
    \cup {[GoodStart EXCEPT !.display_name = n] : n \in {NULL, Ref("")}}
    \cup {[GoodStart EXCEPT !.output_name = n] : n \in {NULL, Ref("")}}
    \cup {[GoodStart EXCEPT !.seat_name = n] : n \in {NULL, Ref("")}}
    \cup {[GoodStart EXCEPT !.connect = FALSE],
          [GoodStart EXCEPT !.registry = FALSE],
          [GoodStart EXCEPT !.pipe = FALSE]}

\* the first property of StartupObserved whose observation fails, if any
startup_observe_failure ==
    LET bad == {i \in 1 .. Len(StartupObserved) :
                    StartupObserved[i] \in observe_fails}
    IN  IF bad = {} THEN 0 ELSE CHOOSE i \in bad : \A j \in bad : i <= j

\* startup goes on when an observation of lines 1221-1240 fails
startup_fault_observe_ignored(cfg) ==
    IF ~str_is_set(cfg.display_name) THEN "no remote display name set"
    ELSE IF ~str_is_set(cfg.output_name) THEN "no remote output name set"
    ELSE IF ~str_is_set(cfg.seat_name) THEN "no remote seat name set"
    ELSE IF ~cfg.connect THEN "failed to connect to the remote compositor"
    ELSE IF ~cfg.registry THEN "failed to get the registry object"
    ELSE IF "zwlr_virtual_pointer_manager_v1" \notin cfg.advertised
    THEN "failed to get the required virtual pointer manager object"
    ELSE IF ~cfg.pipe THEN "pipe2() failed: %m"
    ELSE "none"

\* the message of the `goto done` that startup takes (lines 1151-1249), or
\* "none" when it reaches the loop
startup_fault(cfg) ==
    IF ~str_is_set(cfg.display_name) THEN "no remote display name set"
    ELSE IF ~str_is_set(cfg.output_name) THEN "no remote output name set"
    ELSE IF ~str_is_set(cfg.seat_name) THEN "no remote seat name set"
    ELSE IF ~cfg.connect THEN "failed to connect to the remote compositor"
    ELSE IF ~cfg.registry THEN "failed to get the registry object"
    ELSE IF "zwlr_virtual_pointer_manager_v1" \notin cfg.advertised
    THEN "failed to get the required virtual pointer manager object"
    ELSE IF startup_observe_failure # 0
    THEN "failed to observe the "
         \o StartupObserved[startup_observe_failure] \o " property"
    ELSE IF ~cfg.pipe THEN "pipe2() failed: %m"
    ELSE "none"

\* mpv_open_cplugin from its entry to the loop (lines 1143-1266), or to its
\* return through `done` when startup fails (lines 1309-1359).  The registry
\* events of the roundtrip are part of the step; the name events of the
\* outputs and seats bound in it arrive in the loop.
mpv_open_cplugin(cfg) ==
    /\ UNCHANGED wakeVars
    /\ ~crashed
    /\ pc = "start"
    /\ cfg \in StartInputs
    /\ LET cause == startup_fault(cfg)
           named == /\ str_is_set(cfg.display_name)
                    /\ str_is_set(cfg.output_name)
                    /\ str_is_set(cfg.seat_name)
           connected == named /\ cfg.connect
           listening == connected /\ cfg.registry
           bound(m) == IF listening /\ m \in cfg.advertised
                       THEN Ref("manager") ELSE NULL
           vpm == bound("zwlr_virtual_pointer_manager_v1")
           tlm == bound("zwlr_foreign_toplevel_manager_v1")
           dcm == bound("ext_data_control_manager_v1")
           outs == IF listening THEN cfg.outputs ELSE {}
           seats == IF listening THEN cfg.seats ELSE {}
           titled == listening /\ vpm # NULL
           flags_read == titled /\ cause \in {"none", "pipe2() failed: %m"}
           observed == IF flags_read THEN Len(StartupObserved)
                       ELSE startup_observe_failure
           generic == snprintf(MediaTitleSize, generic_title_text)
           buffer == IF titled THEN generic ELSE media_title
           bind(name) == <<[op |-> "wl_registry_bind", arg |-> name]>>
           observe(i) == observe_property(StartupObserved[i])
           calls ==
               (IF named
                THEN <<[op |-> "wl_display_connect", arg |-> <<>>]>>
                ELSE <<>>)
               \o (IF listening
                   THEN <<[op |-> "wl_display_roundtrip", arg |-> <<>>]>>
                        \o ForEach(bind, Ascending(outs))
                        \o ForEach(bind, Ascending(seats))
                   ELSE <<>>)
               \o (IF titled
                   THEN (IF tlm = NULL
                         THEN <<logger("failed to get the optional foreign toplevel manager object")>>
                         ELSE <<>>)
                        \o (IF dcm = NULL
                            THEN <<logger("failed to get the optional data control manager object")>>
                            ELSE <<>>)
                        \o <<set_property_string("force-media-title",
                                                 generic)>>
                        \o ForEach(observe, Ascending(1 .. observed))
                   ELSE <<>>)
               \o (IF flags_read
                   THEN <<[op |-> "pipe2", arg |-> <<>>]>>
                   ELSE <<>>)
       IN  /\ last_handler' = "mpv_open_cplugin"
           /\ event' = [handler |-> "mpv_open_cplugin",
                        arg |-> [cfg |-> cfg, cause |-> cause]]
           /\ virtual_pointer_manager' = vpm
           /\ toplevel_manager' = tlm
           /\ data_control_manager' = dcm
           /\ input_forwarding_enabled' =
                  IF flags_read THEN cfg.fwd ELSE input_forwarding_enabled
           /\ force_grab_cursor_enabled' =
                  IF flags_read THEN cfg.grab ELSE force_grab_cursor_enabled
           /\ UNCHANGED rc
           /\ IF cause = "none"
              THEN /\ pc' = "loop"
                   /\ effects' = calls
                   /\ wayland_output_list' = outs
                   /\ wayland_seat_list' = seats
                   /\ media_title' = generic
                   /\ force_media_title' = generic
                   /\ UNCHANGED <<remote_output, remote_seat, virtual_pointer,
                                  data_control_device, toplevels, committed,
                                  current_eligible_toplevel, selection_source,
                                  primary_selection_source, published>>
              ELSE /\ pc' = "done"
                   /\ effects' =
                          calls
                          \o (IF titled /\ ~flags_read
                              THEN <<>> ELSE <<logger(cause)>>)
                          \o teardown_calls(outs, seats, dcm, tlm, vpm,
                                            connected, FALSE)
                   /\ teardown_state(buffer)
    /\ UNCHANGED <<mapVars, dc_offer, dc_offer_mime_idx, dc_offer_is_our_own,
                   offers, announced, next_source, offer_origin,
                   observe_fails, motion>>
    /\ NoFault

----------------------------------------------------------------------------
(* mpvif-motion (src/mpvif-motion/mpvif-motion.c, lines 77-218) *)

\* the message of the `goto done` that mpvif-motion takes before its loop,
\* or "none": the names are tested against NULL only (lines 153-169), a
\* connection to a display of empty name is taken to fail, and the failed
\* observation of line 194 leaves without a message
motion_fault(cfg) ==
    IF cfg.display_name = NULL THEN "No remote display name set."
    ELSE IF cfg.output_name = NULL THEN "No remote output name set."
    ELSE IF cfg.seat_name = NULL THEN "No remote seat name set."
    ELSE IF ~cfg.connect \/ Len(Deref(cfg.display_name)) = 0
    THEN "Failed to connect to the remote compositor."
    ELSE IF ~cfg.registry THEN "Failed to get the registry object."
    ELSE IF "zwlr_virtual_pointer_manager_v1" \notin cfg.advertised
    THEN "Failed to get the virtual pointer manager object."
    ELSE IF "mouse-pos" \in observe_fails THEN "mouse-pos"
    ELSE "none"

\* mpv_open_cplugin of mpvif-motion from its entry to its loop (lines
\* 146-198), or to its return when startup fails (lines 213-217)
motion_open_cplugin(cfg) ==
    /\ UNCHANGED wakeVars
    /\ motion.pc = "start"
    /\ cfg \in StartInputs
    /\ LET cause == motion_fault(cfg)
           created == cause \in {"mouse-pos", "none"}
       IN  /\ last_handler' = "mpvif-motion: mpv_open_cplugin"
           /\ event' = [handler |-> "mpvif-motion: mpv_open_cplugin",
                        arg |-> [cfg |-> cfg, cause |-> cause]]
           /\ motion' = [pc |-> IF cause = "none" THEN "loop" ELSE "done",
                         rc |-> -1,
                         virtual_pointer |->
                             IF created THEN Ref("pointer") ELSE NULL]
           /\ effects' =
                  (IF created
                   THEN <<[op |-> "create_virtual_pointer", arg |-> <<>>],
                          [op |-> "mpv_observe_property",
                           arg |-> "mouse-pos"]>>
                   ELSE <<logger(cause)>>)
                  \o (IF cause = "none"
                      THEN <<[op |-> "mpv_wait_event", arg |-> <<>>]>>
                      ELSE <<>>)
    /\ NoFault
    /\ UNCHANGED <<gateVars, mapVars, titleVars, clipVars, pc, rc,
                   virtual_pointer_manager, toplevel_manager, observe_fails>>

\* the loop of mpvif-motion receives MPV_EVENT_SHUTDOWN (lines 201-203) and
\* the function returns 0 (lines 210-217)
motion_shutdown ==
    /\ UNCHANGED wakeVars
    /\ motion.pc = "loop"
    /\ last_handler' = "mpvif-motion: MPV_EVENT_SHUTDOWN"
    /\ event' = [handler |-> "mpvif-motion: MPV_EVENT_SHUTDOWN",
                 arg |-> <<>>]
    /\ motion' = [motion EXCEPT !.pc = "done", !.rc = 0]
    /\ effects' = <<>>
    /\ NoFault
    /\ UNCHANGED <<gateVars, mapVars, titleVars, clipVars, pc, rc,
                   virtual_pointer_manager, toplevel_manager, observe_fails>>

\* what mpv_get_property answers in mouse_pos_changed (lines 94, 116): NULL
\* for a refusal, else a node that carries every key
MotionOsdReplies ==
    {NULL, Ref(ScenarioOsd),
     Ref([ml |-> 1, mr |-> 1, mt |-> 0, mb |-> 0, w |-> 2, h |-> 1])}
MotionVideoReplies == {NULL, Ref(ScenarioVideo)}

\* mouse_pos_changed of mpvif-motion (lines 77-144): a refused
\* mpv_get_property leaves through `done`; lines 130-131 divide with no
\* test, a zero divisor is undefined behaviour whose outcome is `outcome`;
\* lines 133-134 clamp below zero only; lines 136-139 send motion and frame
\* and wait for the roundtrip
mouse_pos_changed(mouse_v, osd, video, outcome) ==
    /\ UNCHANGED wakeVars
    /\ motion.pc = "loop"
    /\ mouse_v \in MousePositions
    /\ osd \in MotionOsdReplies
    /\ video \in MotionVideoReplies
    /\ outcome \in DivisionFaults
    /\ last_handler' = "mpvif-motion: mouse_pos_changed"
    /\ event' = [handler |-> "mpvif-motion: mouse_pos_changed",
                 arg |-> [mouse |-> mouse_v, osd |-> osd, video |-> video]]
    /\ IF osd = NULL \/ video = NULL
       THEN effects' = <<>> /\ fault' = "none" /\ outcome = "zero"
       ELSE LET o == Deref(osd)
                v == Deref(video)
                den_x == o.w - o.ml - o.mr
                den_y == o.h - o.mt - o.mb
                zero == den_x = 0 \/ den_y = 0
                video_pos_x == MAX(CDiv((mouse_v.x - o.ml) * v.w, den_x), 0)
                video_pos_y == MAX(CDiv((mouse_v.y - o.mt) * v.h, den_y), 0)
            IN  /\ ~zero => outcome = "zero"
                /\ fault' = IF zero THEN "division by zero" ELSE "none"
                /\ effects' =
                       IF zero /\ outcome = "trap" THEN <<>>
                       ELSE pointer_motion(video_pos_x, video_pos_y,
                                           v.w, v.h)
                            \o <<[op |-> "wl_display_roundtrip",
                                  arg |-> <<>>]>>
    /\ crashed' = FALSE
    /\ motion' = IF fault' = "division by zero" /\ outcome = "trap"
                 THEN [motion EXCEPT !.pc = "crashed"] ELSE motion
    /\ UNCHANGED <<gateVars, mapVars, titleVars, clipVars, pc, rc,
                   virtual_pointer_manager, toplevel_manager, observe_fails>>

----------------------------------------------------------------------------
(* The wake pipe and the host's event queue (lines 987-990, 1028-1047,
   1246-1254, 1284-1290).  The host side follows the client API of libmpv:
   an event is queued first and the client is woken second, by one call of
   the wake callback unless the callback has been called since the client
   last found the queue empty; mpv_set_wakeup_callback itself calls the
   callback once. *)

MaxEvents == 3

\* sizeof(drain)
DrainSize == 4096

\* the events the host queues for the plugin
HostEvents ==
    {[name |-> "mouse-pos", data |-> <<ScenarioMouse.x, ScenarioMouse.y>>],
     [name |-> "wayland-remote-input-forwarding", data |-> <<0>>],
     [name |-> "wayland-remote-input-forwarding", data |-> <<1>>],
     [name |-> "shutdown", data |-> <<>>]}

\* the host queues an event: the first half of what it does for an event
host_enqueue(e) ==
    /\ pc = "loop"
    /\ host_pc = "idle"
    /\ enqueued < MaxEvents
    /\ e \in HostEvents
    /\ \A i \in DOMAIN mpv_events : mpv_events[i].name # "shutdown"
    /\ mpv_events' = Append(mpv_events, [id |-> enqueued + 1,
                                         name |-> e.name, data |-> e.data])
    /\ enqueued' = enqueued + 1
    /\ host_pc' = "wakeup"
    /\ UNCHANGED <<reactor, wakeup_pipe, need_wakeup, receive_pipe,
                   dispatched>>
    /\ UNCHANGED <<gateVars, mapVars, titleVars, clipVars, loopVars,
                   last_handler, event, effects, fault, crashed>>

\* the wake callback without its write
wakeup_mpv_events_no_write(pipe) == pipe

\* wakeup_mpv_events (lines 987-990): one byte more in the wake pipe
wakeup_mpv_events(pipe) == pipe + 1

\* the host wakes the plugin for the event it has queued: it calls the wake
\* callback on its own thread
host_wakeup ==
    /\ host_pc = "wakeup"
    /\ host_pc' = "idle"
    /\ IF need_wakeup
       THEN UNCHANGED <<need_wakeup, wakeup_pipe>>
       ELSE /\ need_wakeup' = TRUE
            /\ wakeup_pipe' = wakeup_mpv_events(wakeup_pipe)
    /\ UNCHANGED <<reactor, mpv_events, enqueued, receive_pipe, dispatched>>
    /\ UNCHANGED <<gateVars, mapVars, titleVars, clipVars, loopVars,
                   last_handler, event, effects, fault, crashed>>

\* poll returns with POLLIN for the wake pipe alone (lines 1271, 1284)
poll_wakeup_pipe ==
    /\ Running
    /\ reactor = "poll"
    /\ wakeup_pipe > 0
    /\ reactor' = "read"
    /\ last_handler' = "poll"
    /\ event' = [handler |-> "poll", arg |-> [Quiet EXCEPT !.in1 = TRUE]]
    /\ effects' = <<[op |-> "wl_display_flush", arg |-> <<>>],
                    [op |-> "poll", arg |-> <<>>]>>
    /\ UNCHANGED <<wakeup_pipe, mpv_events, enqueued, need_wakeup, host_pc,
                   receive_pipe, dispatched>>
    /\ NoFault
    /\ UNCHANGED <<gateVars, mapVars, titleVars, clipVars, loopVars>>

\* what the read of line 1031 leaves in the wake pipe
drain(pipe) == pipe - MIN(pipe, DrainSize)

\* dispatch_mpv_events, line 1031
dispatch_mpv_events_read ==
    /\ Running
    /\ reactor = "read"
    /\ wakeup_pipe' = drain(wakeup_pipe)
    /\ reactor' = "wait_event"
    /\ last_handler' = "dispatch_mpv_events"
    /\ event' = [handler |-> "dispatch_mpv_events", arg |-> "read"]
    /\ effects' = <<>>
    /\ UNCHANGED <<mpv_events, enqueued, need_wakeup, host_pc, receive_pipe,
                   dispatched>>
    /\ NoFault
    /\ UNCHANGED <<gateVars, mapVars, titleVars, clipVars, loopVars>>

\* mpv_wait_event(hmpv, 0) of line 1034 when it finds the queue empty: it
\* looks at the queue again if the host has woken the plugin since the last
\* empty queue, and returns MPV_EVENT_NONE (line 1038) otherwise
mpv_wait_event_none ==
    /\ Running
    /\ \/ /\ reactor = "wait_event"
          /\ mpv_events = <<>>
          /\ reactor' = "wait_wakeup"
          /\ UNCHANGED need_wakeup
          /\ last_handler' = "dispatch_mpv_events"
          /\ event' = [handler |-> "dispatch_mpv_events", arg |-> "empty"]
       \/ /\ reactor = "wait_wakeup"
          /\ need_wakeup
          /\ need_wakeup' = FALSE
          /\ reactor' = "wait_event"
          /\ last_handler' = "dispatch_mpv_events"
          /\ event' = [handler |-> "dispatch_mpv_events", arg |-> "again"]
       \/ /\ reactor = "wait_wakeup"
          /\ ~need_wakeup
          /\ reactor' = "poll"
          /\ UNCHANGED need_wakeup
          /\ last_handler' = "dispatch_mpv_events"
          /\ event' = [handler |-> "dispatch_mpv_events", arg |-> "none"]
    /\ effects' = <<>>
    /\ UNCHANGED <<wakeup_pipe, mpv_events, enqueued, host_pc, receive_pipe,
                   dispatched>>
    /\ NoFault
    /\ UNCHANGED <<gateVars, mapVars, titleVars, clipVars, loopVars>>

\* MPV_EVENT_SHUTDOWN taken from the queue (lines 1036-1037, 1285-1288),
\* followed by lines 1309-1359
dispatch_mpv_events_shutdown ==
    /\ Running
    /\ reactor = "wait_event"
    /\ mpv_events # <<>>
    /\ Head(mpv_events).name = "shutdown"
    /\ mpv_events' = Tail(mpv_events)
    /\ dispatched' = dispatched \cup {Head(mpv_events).id}
    /\ reactor' = "poll"
    /\ pc' = "done"
    /\ rc' = 0
    /\ last_handler' = "dispatch_mpv_events"
    /\ event' = [handler |-> "dispatch_mpv_events", arg |-> "shutdown"]
    /\ effects' = teardown_calls(wayland_output_list, wayland_seat_list,
                                 data_control_manager, toplevel_manager,
                                 virtual_pointer_manager, TRUE, TRUE)
    /\ teardown_state(media_title)
    /\ UNCHANGED <<wakeup_pipe, enqueued, need_wakeup, host_pc, receive_pipe>>
    /\ UNCHANGED <<data_control_manager, input_forwarding_enabled,
                   force_grab_cursor_enabled, mapVars, dc_offer,
                   dc_offer_mime_idx, dc_offer_is_our_own, offers, announced,
                   next_source, offer_origin, virtual_pointer_manager,
                   toplevel_manager, observe_fails, motion>>
    /\ NoFault

\* property_change_event (lines 992-1026) for the event at the head of the
\* queue
property_change_event ==
    /\ reactor = "wait_event"
    /\ mpv_events # <<>>
    /\ LET e == Head(mpv_events)
       IN  \/ /\ e.name = "mouse-pos"
              /\ pchg_mouse_pos([x |-> e.data[1], y |-> e.data[2]])
           \/ /\ e.name = "wayland-remote-input-forwarding"
              /\ pchg_wayland_remote_input_forwarding(e.data[1])

\* The teardown (lines 1309-1313) closes both ends of the wake pipe and
\* leaves the callback of line 1254 registered: mpv_set_wakeup_callback is
\* not called again.  Until the host destroys the handle, after
\* mpv_open_cplugin has returned, it queues the changes of the properties
\* that are still observed and calls the callback for them.
host_enqueue_after_teardown(e) ==
    /\ pc = "done"
    /\ host_pc = "idle"
    /\ enqueued < MaxEvents
    /\ e \in HostEvents
    /\ e.name # "shutdown"
    /\ mpv_events' = Append(mpv_events, [id |-> enqueued + 1,
                                         name |-> e.name, data |-> e.data])
    /\ enqueued' = enqueued + 1
    /\ host_pc' = "wakeup"
    /\ UNCHANGED <<reactor, wakeup_pipe, need_wakeup, receive_pipe,
                   dispatched>>
    /\ UNCHANGED <<gateVars, mapVars, titleVars, clipVars, loopVars,
                   last_handler, event, effects, fault, crashed>>

\* the host destroys the handle once mpv_open_cplugin has returned: the
\* callback is not called any more
mpv_destroy ==
    /\ pc = "done"
    /\ host_pc = "idle"
    /\ host_pc' = "destroyed"
    /\ UNCHANGED <<reactor, wakeup_pipe, mpv_events, enqueued, need_wakeup,
                   receive_pipe, dispatched>>
    /\ UNCHANGED <<gateVars, mapVars, titleVars, clipVars, loopVars,
                   last_handler, event, effects, fault, crashed>>

----------------------------------------------------------------------------
(* The transfer pipe of receive_offer, one step for each system call that
   can block or be overtaken (lines 803-835) *)

\* close(receive_pipe[1]) is left out
close_write_end_skipped(pipe) == pipe

\* line 819
close_write_end(pipe) == [pipe EXCEPT !.own = FALSE]

\* handle_selection up to the read loop of receive_offer (lines 848-819) for
\* a tracked offer that is received, pipe2 and open_memstream succeeding:
\* the write end goes to the remote with the request
receive_offer_request(id, primary) ==
    /\ Running /\ UNCHANGED loopVars
    /\ reactor = "poll"
    /\ data_control_device # NULL
    /\ id # NULL /\ id = dc_offer
    /\ should_receive(dc_offer_is_our_own, dc_offer_mime_idx)
    /\ primary \in BOOLEAN
    /\ last_handler' = "receive_offer"
    /\ event' = [handler |-> "receive_offer",
                 arg |-> [step |-> "request", id |-> id,
                          primary |-> primary]]
    /\ effects' = SubSeq(receive_offer(primary, "eof", <<>>), 1, 2)
    /\ receive_pipe' = close_write_end([open |-> TRUE, own |-> TRUE,
                                        peer |-> TRUE, data |-> <<>>,
                                        mem |-> <<>>, primary |-> primary])
    /\ reactor' = "receive"
    /\ UNCHANGED <<wakeup_pipe, mpv_events, enqueued, need_wakeup, host_pc,
                   dispatched>>
    /\ NoFault /\ UNCHANGED <<gateVars, mapVars, titleVars, clipVars>>

\* the remote writes a byte to the transfer pipe
peer_write(b) ==
    /\ receive_pipe.open /\ receive_pipe.peer
    /\ b \in Bytes
    /\ Len(receive_pipe.data) + Len(receive_pipe.mem) < MaxPayload
    /\ receive_pipe' = [receive_pipe EXCEPT !.data = Append(@, b)]
    /\ UNCHANGED <<reactor, wakeup_pipe, mpv_events, enqueued, need_wakeup,
                   host_pc, dispatched>>
    /\ UNCHANGED <<gateVars, mapVars, titleVars, clipVars, loopVars,
                   last_handler, event, effects, fault, crashed>>

\* the remote closes its write end of the transfer pipe
peer_close ==
    /\ receive_pipe.open /\ receive_pipe.peer
    /\ receive_pipe' = [receive_pipe EXCEPT !.peer = FALSE]
    /\ UNCHANGED <<reactor, wakeup_pipe, mpv_events, enqueued, need_wakeup,
                   host_pc, dispatched>>
    /\ UNCHANGED <<gateVars, mapVars, titleVars, clipVars, loopVars,
                   last_handler, event, effects, fault, crashed>>

\* what read returns on the transfer pipe (line 822): "data" when bytes are
\* there, "eof" when none is there and no write end is open, and "blocks"
\* otherwise; it may also fail
read_returns(pipe) ==
    IF pipe.data # <<>> THEN "data"
    ELSE IF ~pipe.own /\ ~pipe.peer THEN "eof"
    ELSE "blocks"

\* one turn of the read loop (lines 821-835), and on its end the rest of
\* receive_offer and of handle_selection (lines 837-845, 864)
receive_offer_read(failed) ==
    /\ Running /\ UNCHANGED loopVars
    /\ reactor = "receive"
    /\ failed \in BOOLEAN
    /\ LET ret == IF failed THEN "read" ELSE read_returns(receive_pipe)
       IN  /\ ret # "blocks"
           /\ last_handler' = "receive_offer"
           /\ event' = [handler |-> "receive_offer",
                        arg |-> [step |-> ret, id |-> dc_offer,
                                 primary |-> receive_pipe.primary]]
           /\ IF ret = "data"
              THEN /\ receive_pipe' =
                          [receive_pipe EXCEPT !.mem = @ \o receive_pipe.data,
                                               !.data = <<>>]
                   /\ effects' = <<>>
                   /\ UNCHANGED <<reactor, clipVars>>
              ELSE /\ receive_pipe' = NoPipe
                   /\ reactor' = "poll"
                   /\ effects' =
                          (IF ret = "read"
                           THEN <<logger("read() failed: %m")>>
                           ELSE LET all == receive_offer(
                                               receive_pipe.primary, "eof",
                                               receive_pipe.mem)
                                IN  SubSeq(all, 3, Len(all)))
                          \o <<[op |-> "ext_data_control_offer_v1_destroy",
                                arg |-> Deref(dc_offer)]>>
                   /\ offers' = offers \ {Deref(dc_offer)}
                   /\ dc_offer' = NULL
                   /\ dc_offer_mime_idx' = -1
                   /\ dc_offer_is_our_own' = FALSE
                   /\ announced' = <<>>
                   /\ offer_origin' =
                          [offer_origin EXCEPT ![Deref(dc_offer)] = NULL]
                   /\ UNCHANGED <<selection_source, primary_selection_source,
                                  next_source, published>>
    /\ UNCHANGED <<wakeup_pipe, mpv_events, enqueued, need_wakeup, host_pc,
                   dispatched>>
    /\ NoFault /\ UNCHANGED <<gateVars, mapVars, titleVars>>

----------------------------------------------------------------------------
(* Initial states and specifications *)

\* the properties whose observation the host may refuse in a run: none, or
\* one of those the plugin observes
ObserveFailures ==
    {{}} \cup {{StartupObserved[i]} : i \in 1 .. Len(StartupObserved)}
    \cup {{"mouse-pos"}, {"clipboard/text", "clipboard/text-primary"}}

\* the statics of lines 104-162 as the loader leaves them
\* nothing reported by the host yet, no event queued and no byte in the
\* wake pipe
InitQuiet ==
    /\ osd_v = [ml |-> 0, mr |-> 0, mt |-> 0, mb |-> 0, w |-> 0, h |-> 0]
    /\ video_v = [w |-> 0, h |-> 0]
    /\ wakeup_pipe = 0
    /\ mpv_events = <<>>
    /\ enqueued = 0
    /\ need_wakeup = FALSE

InitStatics ==
    /\ output_layout = [x |-> 0, y |-> 0]
    /\ toplevels = <<>>
    /\ committed = <<>>
    /\ current_eligible_toplevel = NULL
    /\ selection_source = [obj |-> NULL, text |-> NULL, len |-> 0]
    /\ primary_selection_source = [obj |-> NULL, text |-> NULL, len |-> 0]
    /\ dc_offer = NULL
    /\ dc_offer_mime_idx = -1
    /\ dc_offer_is_our_own = FALSE
    /\ offers = {}
    /\ announced = <<>>
    /\ next_source = 0
    /\ published = [r \in BOOLEAN |-> NULL]
    /\ offer_origin = [i \in OfferIds |-> NULL]
    /\ rc = -1
    /\ motion = [pc |-> "start", rc |-> -1, virtual_pointer |-> NULL]
    /\ last_handler = "mpv_open_cplugin"
    /\ event = [handler |-> "mpv_open_cplugin", arg |-> <<>>]
    /\ effects = <<>>
    /\ fault = "none"
    /\ crashed = FALSE
    /\ reactor = "poll"
    /\ host_pc = "idle"
    /\ receive_pipe = NoPipe
    /\ dispatched = {}

\* what every initial state in the loop shares: the statics, the generic
\* title set by line 1218, the managers bound and every observation granted
InitCommon ==
    /\ InitStatics
    /\ InitQuiet
    /\ media_title = snprintf(MediaTitleSize, generic_title_text)
    /\ force_media_title = media_title
    /\ pc = "loop"
    /\ virtual_pointer_manager = Ref("manager")
    /\ toplevel_manager = Ref("manager")
    /\ observe_fails = {}

\* mpv_open_cplugin is about to be called: nothing is bound, the title buffer
\* is empty and the host grants or refuses observations
InitStart ==
    /\ InitStatics
    /\ InitQuiet
    /\ media_title = ""
    /\ force_media_title = ""
    /\ pc = "start"
    /\ virtual_pointer_manager = NULL
    /\ toplevel_manager = NULL
    /\ observe_fails \in ObserveFailures
    /\ wayland_output_list = {}
    /\ wayland_seat_list = {}
    /\ remote_output = NULL
    /\ remote_seat = NULL
    /\ virtual_pointer = NULL
    /\ data_control_manager = NULL
    /\ data_control_device = NULL
    /\ input_forwarding_enabled = 0
    /\ force_grab_cursor_enabled = 0

\* The reactor as it enters its loop (line 1268): no output or seat is
\* tracked yet, the optional data-control manager is bound or not
\* (lines 518-521, 1196-1197) and the two flags hold what the host reported
\* (lines 1241-1244).  Name events are taken to arrive in the loop.
Init ==
    /\ InitCommon
    /\ wayland_output_list = {}
    /\ wayland_seat_list = {}
    /\ remote_output = NULL
    /\ remote_seat = NULL
    /\ virtual_pointer = NULL
    /\ data_control_manager \in {NULL, Ref("manager")}
    /\ data_control_device = NULL
    /\ input_forwarding_enabled \in Flags
    /\ force_grab_cursor_enabled \in Flags

\* The reactor once the target output and the target seat have been named,
\* with the data-control manager bound, forwarding enabled and force-grab
\* disabled: a state SpecGate reaches (see SessionReached)
SessionState ==
    /\ wayland_output_list = {1}
    /\ wayland_seat_list = {MaxOutputs + 1}
    /\ remote_output = Ref(1)
    /\ remote_seat = Ref(MaxOutputs + 1)
    /\ virtual_pointer = Ref([seat |-> MaxOutputs + 1, output |-> 1])
    /\ data_control_manager = Ref("manager")
    /\ data_control_device = Ref([seat |-> MaxOutputs + 1])
    /\ input_forwarding_enabled = 1
    /\ force_grab_cursor_enabled = 0

InitSession == InitCommon /\ SessionState

\* The reactor as it enters its loop in a session whose viewport and frame
\* size the host has reported (a state SpecMap reaches): the call of
\* mpv_set_wakeup_callback (line 1254) has left one byte in the wake pipe, and
\* the host has queued nothing yet or the first mouse-pos event
InitWake ==
    /\ InitStatics
    /\ SessionState
    /\ osd_v = ScenarioOsd
    /\ video_v = ScenarioVideo
    /\ media_title = snprintf(MediaTitleSize, generic_title_text)
    /\ force_media_title = media_title
    /\ pc = "loop"
    /\ virtual_pointer_manager = Ref("manager")
    /\ toplevel_manager = Ref("manager")
    /\ observe_fails = {}
    /\ wakeup_pipe = wakeup_mpv_events(0)
    /\ \/ mpv_events = <<>> /\ enqueued = 0 /\ need_wakeup = FALSE
       \/ /\ mpv_events = <<[id |-> 1, name |-> "mouse-pos",
                             data |-> <<ScenarioMouse.x, ScenarioMouse.y>>]>>
          /\ enqueued = 1
          /\ need_wakeup = TRUE

NextGate ==
    \/ \E name \in OutputIds : registry_global_output(name)
    \/ \E name \in SeatIds : registry_global_seat(name)
    \/ \E o \in OutputIds, name \in OutputNames : output_name(o, name)
    \/ \E s \in SeatIds, name \in SeatNames : seat_name(s, name)
    \/ \E name \in GlobalIds : registry_global_remove(name)
    \/ data_control_device_finished
    \/ \E value \in Flags : pchg_wayland_remote_input_forwarding(value)
    \/ \E value \in Flags : pchg_wayland_remote_force_grab_cursor(value)

NextMap ==
    \/ \E node \in OsdNodes : pchg_osd_dimensions(node)
    \/ \E node \in VideoNodes : pchg_video_params(node)
    \/ \E mouse_v \in MousePositions : pchg_mouse_pos(mouse_v)
    \/ \E reply \in LayoutReplies : i3e_output(reply)
    \/ \E ev \in WarpPositions, outcome \in DivisionFaults :
           i3e_cursor_warp(ev, outcome)
    \/ \E value \in Flags : pchg_wayland_remote_force_grab_cursor(value)

NextTitle ==
    \/ \E w \in WindowIds : toplevel_manager_toplevel(w)
    \/ \E w \in WindowIds, title \in Titles : toplevel_handle_title(w, title)
    \/ \E w \in WindowIds, app_id \in AppIds :
           toplevel_handle_app_id(w, app_id)
    \/ \E w \in WindowIds, state \in StateArrays :
           toplevel_handle_state(w, state)
    \/ \E w \in WindowIds : toplevel_handle_done(w)
    \/ \E w \in WindowIds : toplevel_handle_closed(w)

NextClip ==
    \/ \E id \in {NULL} \cup {Ref(i) : i \in OfferIds}, origin \in Origins :
           data_control_device_data_offer(id, origin)
    \/ \E id \in OfferIds, mime_type \in MimeTypes :
           data_control_offer_offer(id, mime_type)
    \/ \E id \in {NULL} \cup {Ref(i) : i \in OfferIds}, primary \in BOOLEAN,
          outcome \in ReceiveOutcomes, payload \in Payloads :
           handle_selection(id, primary, outcome, payload)

NextSel ==
    \/ \E id \in {NULL} \cup {Ref(i) : i \in SelOfferIds}, origin \in Origins :
           data_control_device_data_offer(id, origin)
    \/ \E id \in SelOfferIds, mime_type \in SelMimeTypes \cup Range(source_mimes) :
           /\ (Ref(id) # dc_offer \/ offer_origin[id] = NULL)
                  => mime_type \in SelMimeTypes
           /\ data_control_offer_offer(id, mime_type)
    \/ \E id \in {NULL} \cup {Ref(i) : i \in SelOfferIds}, primary \in BOOLEAN,
          outcome \in SelOutcomes, payload \in SelPayloads :
           handle_selection(id, primary, outcome, payload)
    \/ \E string \in HostTexts, dup_ok \in BOOLEAN :
           pchg_clipboard_text(string, dup_ok)
    \/ \E string \in HostTexts, dup_ok \in BOOLEAN :
           pchg_clipboard_text_primary(string, dup_ok)
    \/ \E primary \in BOOLEAN : data_control_source_cancelled(primary)

\* a whole run: startup, a session with one output, one seat, one window and
\* one regular selection, and the end of the loop
NextLoop ==
    \/ \E cfg \in StartInputs : mpv_open_cplugin(cfg)
    \/ \E p \in PollResults : reactor_poll(p)
    \/ registry_global_output(1)
    \/ registry_global_seat(MaxOutputs + 1)
    \/ output_name(1, remote_output_name)
    \/ seat_name(MaxOutputs + 1, remote_seat_name)
    \/ \E value \in Flags : pchg_wayland_remote_input_forwarding(value)
    \/ toplevel_manager_toplevel(1)
    \/ toplevel_handle_title(1, "Foo")
    \/ toplevel_handle_app_id(1, "bar")
    \/ toplevel_handle_state(1, <<"fullscreen">>)
    \/ toplevel_handle_done(1)
    \/ pchg_clipboard_text(Ref(<<97>>), TRUE)

\* the startup of both variants
\* the requests of both programs on their virtual pointer: positions
\* reported to either of them, and the forwarding flag and the removals that
\* destroy and create the pointer of mpvif-plugin
NextMotion ==
    \/ \E node \in OsdNodes : pchg_osd_dimensions(node)
    \/ \E mouse_v \in MousePositions : pchg_mouse_pos(mouse_v)
    \/ \E value \in Flags : pchg_wayland_remote_input_forwarding(value)
    \/ registry_global_remove(1)
    \/ \E cfg \in StartInputs : motion_open_cplugin(cfg)
    \/ \E mouse_v \in MousePositions, osd \in MotionOsdReplies,
          video \in MotionVideoReplies, outcome \in DivisionFaults :
           mouse_pos_changed(mouse_v, osd, video, outcome)
    \/ motion_shutdown

NextStart ==
    \/ \E cfg \in StartInputs : mpv_open_cplugin(cfg)
    \/ \E cfg \in StartInputs : motion_open_cplugin(cfg)
    \/ motion_shutdown

\* the reactor thread between the wake pipe, the host's queue and the
\* transfer pipe
ReactorStep ==
    \/ poll_wakeup_pipe
    \/ dispatch_mpv_events_read
    \/ mpv_wait_event_none
    \/ dispatch_mpv_events_shutdown
    \/ property_change_event

\* the two threads, and the target output going and coming back; the
\* handlers of the display run when the thread comes back from poll
NextWake ==
    \/ ReactorStep
    \/ \E e \in HostEvents : host_enqueue(e)
    \/ host_wakeup
    \/ reactor = "poll" /\ registry_global_remove(1)
    \/ reactor = "poll" /\ output_name(1, remote_output_name)
    \/ reactor = "poll" /\ registry_global_output(1)

\* the two threads up to the end of the plugin: after the teardown the host
\* still queues events for the handle until it destroys it
NextDown ==
    \/ NextWake
    \/ \E e \in HostEvents : host_enqueue_after_teardown(e)
    \/ mpv_destroy

\* the turns of the read loop of receive_offer
ReceiveStep == \E failed \in BOOLEAN : receive_offer_read(failed)

\* the two threads, a foreign offer and the remote's end of its transfer
NextRecv ==
    \/ ReactorStep
    \/ ReceiveStep
    \/ \E e \in HostEvents : enqueued < MaxEvents - 1 /\ host_enqueue(e)
    \/ host_wakeup
    \/ reactor = "poll" /\ data_control_device_data_offer(Ref(1), NULL)
    \/ reactor = "poll" /\ data_control_offer_offer(1, "text/plain")
    \/ \E primary \in BOOLEAN : receive_offer_request(Ref(1), primary)
    \/ \E b \in Bytes : peer_write(b)
    \/ peer_close

Next == NextGate \/ NextMap \/ NextTitle \/ NextSel \/ NextLoop \/ NextStart
            \/ NextWake \/ NextRecv \/ NextMotion \/ NextDown

SpecGate == Init /\ [][NextGate]_vars
SpecMap == InitSession /\ [][NextMap]_vars
SpecTitle == InitSession /\ [][NextTitle]_vars
SpecClip == InitSession /\ [][NextClip]_vars
SpecSel == InitSession /\ [][NextSel]_vars
SpecLoop == InitStart /\ [][NextLoop]_vars
SpecStart == InitStart /\ [][NextStart]_vars


\* both programs forwarding positions: mpvif-plugin in its session,
\* mpvif-motion from its start
SpecMotion == InitSession /\ [][NextMotion]_vars

\* the reactor thread runs when it can and the host calls the wake callback
\* for each event it has queued
SpecWake ==
    /\ InitWake
    /\ [][NextWake]_vars
    /\ WF_wakeVars(ReactorStep)
    /\ WF_wakeVars(host_wakeup)

\* the two threads from the loop to the destruction of the handle
SpecDown == InitWake /\ [][NextDown]_vars

\* the same, and a read that has bytes to return or is at end-of-file
\* returns; nothing forces a read to fail
SpecRecv ==
    /\ InitWake
    /\ [][NextRecv]_vars
    /\ WF_wakeVars(ReactorStep)
    /\ WF_wakeVars(receive_offer_read(FALSE))
    /\ WF_wakeVars(host_wakeup)
Spec == Init /\ [][Next]_vars

\* SpecGate reaches the state the other specifications start from
SessionReached == ~SessionState

----------------------------------------------------------------------------
(* Properties *)

\* the positions in `effects` of the calls of op
Calls(op) == {i \in 1 .. Len(effects) : effects[i].op = op}

\* the strings of the session, written out
SessionSuffix == " [wayland-1 HEADLESS-1 seat0]"
GenericTitle == "Remote desktop" \o SessionSuffix
\* the first 511 characters of s: what a 512-byte buffer holds
Stored(s) == IF Len(s) > 511 THEN SubSeq(s, 1, 511) ELSE s

\* C1 (SpecGate): in every state, so after every handler that changes a
\* gating input, the virtual pointer is bound if and only if the target
\* output is resolved, the target seat is resolved, input forwarding is
\* enabled and force-grab-cursor is disabled.
C1_PointerMatchesGate ==
    (virtual_pointer # NULL)
        <=> (/\ remote_output # NULL
             /\ remote_seat # NULL
             /\ input_forwarding_enabled # 0
             /\ force_grab_cursor_enabled = 0)

\* C1 witness: a force-grab-cursor change has just bound the pointer again,
\* on a target output that was named after the target seat.
C1_Witness ==
    /\ event.handler = "pchg_wayland_remote_force_grab_cursor"
    /\ virtual_pointer # NULL
    /\ Calls("create_virtual_pointer_with_output") # {}
    /\ Cardinality(wayland_output_list) > 1

\* C2 (SpecClip): a selection-committed notification for the tracked offer,
\* among whose announced MIME types the marker appears, requests no transfer
\* and sets no clipboard property on the host.
C2_SelfEchoSuppressed ==
    (/\ event.handler = "handle_selection"
     /\ event.arg.tracked
     /\ "x-mpvif-plugin-0badcafe" \in Range(event.arg.announced))
        => /\ Calls("ext_data_control_offer_v1_receive") = {}
           /\ Calls("mpv_set_property_string") = {}

\* C2 witness: the tracked offer announced a UTF-8 MIME type first and the
\* marker second, and its selection was committed.
C2_Witness ==
    /\ event.handler = "handle_selection"
    /\ event.arg.tracked
    /\ event.arg.announced = <<"text/plain;charset=utf-8",
                               "x-mpvif-plugin-0badcafe">>
    /\ dc_offer = NULL

\* C3 (SpecClip): when the receive of a foreign selection reaches end-of-file
\* with no byte transferred, no clipboard property is set on the host.
C3_EmptyPayloadNotPushed ==
    (/\ event.handler = "handle_selection"
     /\ event.arg.received
     /\ event.arg.outcome = "eof"
     /\ event.arg.payload = <<>>)
        => Calls("mpv_set_property_string") = {}

\* C4 as claimed (SpecTitle): a done event on a window whose title,
\* application id and fullscreen flag are those of its previous done event
\* sets no title on the host, whatever other windows are tracked.
C4_CommitNeverRepeatsTitle ==
    (event.handler = "toplevel_handle_done" /\ event.arg.unchanged)
        => Calls("mpv_set_property_string") = {}

\* C4 as amended (SpecTitle): such a done event sets no title on the host
\* when the window is not eligible or is still the current eligible window;
\* when it is eligible and another window's done event has taken the current
\* role since, it is made current again and its fullscreen title is set once.
C4_UnchangedCommit ==
    (event.handler = "toplevel_handle_done" /\ event.arg.unchanged)
        => IF event.arg.eligible /\ ~event.arg.was_current
           THEN /\ current_eligible_toplevel = Ref(event.arg.w)
                /\ Cardinality(Calls("mpv_set_property_string")) = 1
           ELSE /\ Calls("mpv_set_property_string") = {}
                /\ event.arg.was_current
                       <=> current_eligible_toplevel = Ref(event.arg.w)

\* C4 witness: an unchanged done event on the current eligible window while a
\* second window is tracked.
C4_Witness ==
    /\ event.handler = "toplevel_handle_done"
    /\ event.arg.unchanged
    /\ event.arg.was_current
    /\ event.arg.eligible
    /\ Cardinality(DOMAIN toplevels) > 1
    /\ effects = <<>>

\* C5 (SpecTitle): closing the current eligible window clears the current
\* reference and sets the generic title on the host exactly once; closing
\* any other window sets no title and leaves the current reference alone.
C5_CloseRestoresGenericTitle ==
    event.handler = "toplevel_handle_closed"
        => IF event.arg.was_current
           THEN /\ current_eligible_toplevel = NULL
                /\ Cardinality(Calls("mpv_set_property_string")) = 1
                /\ \A i \in Calls("mpv_set_property_string") :
                       effects[i].arg = <<"force-media-title", GenericTitle>>
                /\ force_media_title = GenericTitle
           ELSE /\ Calls("mpv_set_property_string") = {}
                /\ current_eligible_toplevel # Ref(event.arg.w)

\* C5 witness: the current eligible window has just been closed while another
\* window is still tracked.
C5_Witness ==
    /\ event.handler = "toplevel_handle_closed"
    /\ event.arg.was_current
    /\ DOMAIN toplevels # {}
    /\ force_media_title = GenericTitle

\* C6 as claimed (SpecTitle): a done event on an eligible window that is not
\* current sets the host title to "[A] T [<display> <output> <seat>]"; a
\* later done event that finds the window no longer eligible, or its close,
\* sets the host title to "Remote desktop [<display> <output> <seat>]".
C6_TitlesAsClaimed ==
    /\ (/\ event.handler = "toplevel_handle_done"
        /\ event.arg.eligible
        /\ ~event.arg.was_current)
           => force_media_title =
                  "[" \o Deref(event.arg.app_id) \o "] "
                      \o Deref(event.arg.title) \o SessionSuffix
    /\ (/\ event.handler = "toplevel_handle_done"
        /\ event.arg.committed_eligible
        /\ ~event.arg.eligible)
           => force_media_title = GenericTitle
    /\ (/\ event.handler = "toplevel_handle_closed"
        /\ event.arg.committed_eligible)
           => force_media_title = GenericTitle

\* C6 as amended (SpecTitle): the fullscreen title is the claimed text cut
\* to the 511 characters the media_title buffer holds; the generic title is
\* set when the window stops being eligible at a done event, or closes, while
\* it is still the current eligible window; when it is not current, its done
\* or close event sets no title.
C6_Titles ==
    /\ (/\ event.handler = "toplevel_handle_done"
        /\ event.arg.eligible
        /\ ~event.arg.was_current)
           => /\ force_media_title =
                     Stored("[" \o Deref(event.arg.app_id) \o "] "
                                \o Deref(event.arg.title) \o SessionSuffix)
              /\ effects = <<[op |-> "mpv_set_property_string",
                              arg |-> <<"force-media-title",
                                        force_media_title>>]>>
    /\ (/\ event.handler \in {"toplevel_handle_done", "toplevel_handle_closed"}
        /\ event.handler = "toplevel_handle_done" => ~event.arg.eligible
        /\ event.arg.was_current)
           => /\ force_media_title = Stored(GenericTitle)
              /\ Calls("mpv_set_property_string") = {1}
              /\ effects[1].arg = <<"force-media-title", GenericTitle>>
    /\ (/\ event.handler \in {"toplevel_handle_done", "toplevel_handle_closed"}
        /\ event.handler = "toplevel_handle_done" => ~event.arg.eligible
        /\ ~event.arg.was_current)
           => Calls("mpv_set_property_string") = {}

\* C6 witness: scenario B, the window "Foo" of application "bar" has just
\* been made current and the host title is "[bar] Foo [...]".
C6_Witness ==
    /\ event.handler = "toplevel_handle_done"
    /\ event.arg.eligible
    /\ ~event.arg.was_current
    /\ force_media_title = "[bar] Foo [wayland-1 HEADLESS-1 seat0]"

\* C7 (SpecMap): a host pointer-position change handled while the effective
\* viewport width or height is zero sends no motion and no frame request and
\* divides nothing.
C7_DegenerateViewportSuppressed ==
    (/\ event.handler = "pchg_mouse_pos"
     /\ \/ osd_v.w - osd_v.ml - osd_v.mr = 0
        \/ osd_v.h - osd_v.mt - osd_v.mb = 0)
        => effects = <<>> /\ fault = "none"

\* C7 witness: the pointer is bound and a position change was handled with a
\* non-zero effective width and a zero effective height.
C7_Witness ==
    /\ event.handler = "pchg_mouse_pos"
    /\ virtual_pointer # NULL
    /\ osd_v.w - osd_v.ml - osd_v.mr # 0
    /\ osd_v.h - osd_v.mt - osd_v.mb = 0
    /\ effects = <<>>

\* C8 (SpecMap): handling a remote cursor-warp notification never divides by
\* zero, also while the cached frame size is still 0 x 0.
C8_WarpNeverDividesByZero ==
    event.handler = "i3e_cursor_warp" => fault # "division by zero"

\* C9 (SpecMap): every motion request carries x in [0, frame width] and y in
\* [0, frame height], and every pointer position set on the host carries x in
\* [0, viewport width] and y in [0, viewport height].
C9_Clamped ==
    \A i \in 1 .. Len(effects) :
        /\ effects[i].op = "zwlr_virtual_pointer_v1_motion_absolute"
               => /\ 0 <= effects[i].arg.x /\ effects[i].arg.x <= video_v.w
                  /\ 0 <= effects[i].arg.y /\ effects[i].arg.y <= video_v.h
        /\ effects[i].op = "mpv_set_property"
               => /\ 0 <= effects[i].arg.x /\ effects[i].arg.x <= osd_v.w
                  /\ 0 <= effects[i].arg.y /\ effects[i].arg.y <= osd_v.h

\* C9 witness: a host position right of and below the video area was mapped
\* to the far corner of a frame of positive size.
C9_Witness ==
    /\ event.handler = "pchg_mouse_pos"
    /\ video_v.w > 0 /\ video_v.h > 0
    /\ event.arg.x > osd_v.w - osd_v.mr
    /\ event.arg.y > osd_v.h - osd_v.mb
    /\ Len(effects) = 2
    /\ effects[1].arg.x = video_v.w
    /\ effects[1].arg.y = video_v.h

\* q is n / d truncated toward zero, for d # 0
IsQuotient(q, n, d) ==
    LET r == n - q * d
    IN  /\ (IF r < 0 THEN -r ELSE r) < (IF d < 0 THEN -d ELSE d)
        /\ r = 0 \/ (r < 0) = (n < 0)

\* v is n / d, truncated toward zero and clamped to [0, size]
IsClampedQuotient(v, n, d, size) ==
    \/ v = 0 /\ (size = 0 \/ n * d < d * d)
    \/ v = size /\ n * d >= size * d * d
    \/ 0 < v /\ v < size /\ IsQuotient(v, n, d)

\* C10 (SpecMap): with the pointer bound and non-zero effective viewport
\* dimensions, a host position (x, y) sends exactly one motion request, with
\* x' = clamp(((x - ml) * fw) / (w - ml - mr), 0, fw) and
\* y' = clamp(((y - mt) * fh) / (h - mt - mb), 0, fh) and the frame size as
\* extents, followed by a frame request; (100, 50) in scenario A gives
\* (864, 324).
C10_MotionFormula ==
    (/\ event.handler = "pchg_mouse_pos"
     /\ virtual_pointer # NULL
     /\ osd_v.w - osd_v.ml - osd_v.mr # 0
     /\ osd_v.h - osd_v.mt - osd_v.mb # 0)
        => /\ Len(effects) = 2
           /\ effects[1].op = "zwlr_virtual_pointer_v1_motion_absolute"
           /\ effects[2].op = "zwlr_virtual_pointer_v1_frame"
           /\ effects[1].arg.x_extent = video_v.w
           /\ effects[1].arg.y_extent = video_v.h
           /\ IsClampedQuotient(effects[1].arg.x,
                                (event.arg.x - osd_v.ml) * video_v.w,
                                osd_v.w - osd_v.ml - osd_v.mr, video_v.w)
           /\ IsClampedQuotient(effects[1].arg.y,
                                (event.arg.y - osd_v.mt) * video_v.h,
                                osd_v.h - osd_v.mt - osd_v.mb, video_v.h)
           /\ (/\ event.arg = [x |-> 100, y |-> 50]
               /\ osd_v = [ml |-> 10, mr |-> 10, mt |-> 20, mb |-> 0,
                           w |-> 220, h |-> 120]
               /\ video_v = [w |-> 1920, h |-> 1080])
                  => effects[1].arg.x = 864 /\ effects[1].arg.y = 324

\* C10 witness: scenario A has been handled.
C10_Witness ==
    /\ event.handler = "pchg_mouse_pos"
    /\ event.arg = [x |-> 100, y |-> 50]
    /\ virtual_pointer # NULL
    /\ osd_v = [ml |-> 10, mr |-> 10, mt |-> 20, mb |-> 0,
                w |-> 220, h |-> 120]
    /\ video_v = [w |-> 1920, h |-> 1080]
    /\ Len(effects) = 2
    /\ effects[1].arg.x = 864

\* the step is a round trip: a host position inside the viewport interior was
\* mapped to a motion request under non-negative margins, a positive
\* effective viewport and a positive frame, and the cursor-warp notification
\* handled next reports that very position, with the output at the origin
IsRoundTrip ==
    /\ event.handler = "pchg_mouse_pos"
    /\ Len(effects) = 2
    /\ event'.handler = "i3e_cursor_warp"
    /\ event'.arg = [x |-> effects[1].arg.x, y |-> effects[1].arg.y]
    /\ output_layout = [x |-> 0, y |-> 0]
    /\ video_v.w > 0 /\ video_v.h > 0
    /\ osd_v.w - osd_v.ml - osd_v.mr # 0
    /\ osd_v.h - osd_v.mt - osd_v.mb # 0
    /\ osd_v.ml >= 0 /\ osd_v.mr >= 0 /\ osd_v.mt >= 0 /\ osd_v.mb >= 0
    /\ osd_v.ml <= event.arg.x /\ event.arg.x <= osd_v.w - osd_v.mr
    /\ osd_v.mt <= event.arg.y /\ event.arg.y <= osd_v.h - osd_v.mb
    /\ Len(effects') = 1

\* C11 as claimed (SpecMap): mapping a host position inside the viewport
\* interior to the remote and mapping the result back returns a position
\* that differs from it by at most 1 on each axis.
C11_RoundTripWithinOne ==
    [][IsRoundTrip =>
          /\ effects'[1].arg.x - event.arg.x \in {-1, 0, 1}
          /\ effects'[1].arg.y - event.arg.y \in {-1, 0, 1}]_vars

\* C11 as amended (SpecMap): the position mapped back is never beyond the
\* original one and falls short of it, on each axis, by less than
\* 1 + (effective viewport size / frame size): by at most 1 when the frame
\* is at least as large as the effective viewport, by more when it is smaller.
C11_RoundTrip ==
    [][IsRoundTrip =>
          LET dx == event.arg.x - effects'[1].arg.x
              dy == event.arg.y - effects'[1].arg.y
              dw == osd_v.w - osd_v.ml - osd_v.mr
              dh == osd_v.h - osd_v.mt - osd_v.mb
          IN  /\ 0 <= dx /\ dx * video_v.w < video_v.w + dw
              /\ 0 <= dy /\ dy * video_v.h < video_v.h + dh
              /\ (video_v.w >= dw) => dx <= 1
              /\ (video_v.h >= dh) => dy <= 1]_vars

\* C11 witness: the remote position (864, 324) of scenario A has been mapped
\* back to the host position (100, 50) it came from.
C11_Witness ==
    /\ event.handler = "i3e_cursor_warp"
    /\ event.arg = [x |-> 864, y |-> 324]
    /\ output_layout = [x |-> 0, y |-> 0]
    /\ osd_v = [ml |-> 10, mr |-> 10, mt |-> 20, mb |-> 0,
                w |-> 220, h |-> 120]
    /\ video_v = [w |-> 1920, h |-> 1080]
    /\ Len(effects) = 1
    /\ effects[1].arg.x = 100 /\ effects[1].arg.y = 50

----------------------------------------------------------------------------
(* The transient offer *)

\* C20: after handle_selection has handled the commit of the tracked offer,
\* the offer object has been destroyed as the last request of the handler, no
\* offer is tracked, no MIME candidate is chosen and the self-origin flag is
\* false; this holds whether the receive delivered a payload, failed (pipe2,
\* open_memstream or read) or was skipped.
C20_OfferReleased ==
    (event.handler = "handle_selection" /\ event.arg.tracked)
        => /\ dc_offer = NULL
           /\ dc_offer_mime_idx = -1
           /\ dc_offer_is_our_own = FALSE
           /\ Deref(event.arg.id) \notin offers
           /\ Len(effects) > 0
           /\ effects[Len(effects)] =
                  [op |-> "ext_data_control_offer_v1_destroy",
                   arg |-> Deref(event.arg.id)]

\* a tracked offer whose receive failed in read was committed
C20_Witness ==
    /\ event.handler = "handle_selection"
    /\ event.arg.tracked
    /\ event.arg.received
    /\ event.arg.outcome = "read"
    /\ event.arg.mime_idx = 3
    /\ dc_offer = NULL

\* a tracked offer was committed and its receive delivered a payload
C20_WitnessReceived ==
    /\ event.handler = "handle_selection"
    /\ event.arg.tracked
    /\ event.arg.received
    /\ event.arg.outcome = "eof"
    /\ Calls("mpv_set_property_string") # {}

\* a tracked self-originated offer was committed and not received
C20_WitnessSkipped ==
    /\ event.handler = "handle_selection"
    /\ event.arg.tracked
    /\ event.arg.own
    /\ event.arg.mime_idx # -1
    /\ ~event.arg.received
    /\ dc_offer = NULL
----------------------------------------------------------------------------
(* The MIME candidate *)

\* the announcements that precede the first marker MIME type
BeforeMarker(mimes) ==
    LET at == {i \in 1 .. Len(mimes) : mimes[i] = custom_mime_type_name}
    IN  IF at = {} THEN mimes
        ELSE SubSeq(mimes, 1, (CHOOSE i \in at : \A j \in at : i <= j) - 1)

\* the smallest index of utf8_mimes among the given announcements, or -1
BestIdx(mimes) ==
    LET found == {i \in 0 .. Len(utf8_mimes) - 1 :
                      \E k \in 1 .. Len(mimes) : mimes[k] = utf8_mimes[i + 1]}
    IN  IF found = {} THEN -1
        ELSE CHOOSE i \in found : \A j \in found : i <= j

C18_BestCandidateChosenFresh ==
    (/\ event.handler = "data_control_offer_offer"
     /\ dc_offer # NULL
     /\ Len(announced) = 2
     /\ announced[1] = "text/plain"
     /\ announced[2] = "STRING")
        => dc_offer_mime_idx = BestIdx(BeforeMarker(announced))
----------------------------------------------------------------------------
(* Host selection changes *)

\* the last step handled a change of clipboard/text or clipboard/text-primary
IsHostSelectionChange ==
    event.handler \in {"pchg_clipboard_text", "pchg_clipboard_text_primary"}

\* the role the last step's property stands for
ChangedPrimary == event.handler = "pchg_clipboard_text_primary"

\* a host string that is unset or empty
IsUnsetOrEmpty(string) == IF string = NULL THEN TRUE ELSE Deref(string) = <<>>

IsSwap(n) ==
    /\ event.arg.old.obj # Ref(n)
    /\ event.arg.other.obj # Ref(n)
    /\ Len(effects) = (IF event.arg.old.obj = NULL THEN 9 ELSE 10)
    /\ effects[1] =
           [op |-> "ext_data_control_manager_v1_create_data_source", arg |-> n]
    /\ effects[2] = [op |-> "ext_data_control_source_v1_offer",
                     arg |-> <<n, custom_mime_type_name>>]
    /\ \A i \in 1 .. 5 :
           effects[2 + i] = [op |-> "ext_data_control_source_v1_offer",
                             arg |-> <<n, utf8_mimes[i]>>]
    /\ effects[8] = store(ChangedPrimary, Ref(n))
    /\ effects[9] = set_selection(ChangedPrimary, Ref(n))
    /\ event.arg.old.obj # NULL =>
           effects[10] = source_destroy(Deref(event.arg.old.obj))
    /\ Slot(ChangedPrimary) =
           [obj |-> Ref(n), text |-> event.arg.string,
            len |-> Len(Deref(event.arg.string))]
    /\ Slot(~ChangedPrimary) = event.arg.other
    /\ published[ChangedPrimary] # NULL
    /\ Deref(published[ChangedPrimary]).source = n

\* C19 as claimed: every change of clipboard/text or clipboard/text-primary
\* to a non-empty text while a data-control device is bound swaps a fresh
\* source in for the role, in the order create, offer, store, publish,
\* destroy the previous one.
C19_FreshSourceSwappedIn ==
    (/\ IsHostSelectionChange
     /\ event.arg.device
     /\ ~IsUnsetOrEmpty(event.arg.string))
        => (Slot(ChangedPrimary).obj # NULL
            /\ IsSwap(Deref(Slot(ChangedPrimary).obj)))

\* C19: every change of clipboard/text or clipboard/text-primary to a
\* non-empty text while a data-control device is bound swaps a fresh source
\* in for the role, in the order create, offer, store, publish, destroy the
\* previous one, provided strdup returns a copy of the text; when strdup
\* fails the step only publishes a null source for the role and leaves both
\* slots as they were.
C19_FreshSourceSwappedInIfCopied ==
    (/\ IsHostSelectionChange
     /\ event.arg.device
     /\ ~IsUnsetOrEmpty(event.arg.string))
        => IF event.arg.dup_ok
           THEN /\ Slot(ChangedPrimary).obj # NULL
                /\ IsSwap(Deref(Slot(ChangedPrimary).obj))
           ELSE /\ effects = <<set_selection(ChangedPrimary, NULL)>>
                /\ Slot(ChangedPrimary) = event.arg.old
                /\ Slot(~ChangedPrimary) = event.arg.other

\* the regular text changed to "a" while each role held a source: the new
\* source replaced the regular one, which was destroyed last
C19_Witness ==
    /\ event.handler = "pchg_clipboard_text"
    /\ event.arg.device
    /\ event.arg.dup_ok
    /\ event.arg.string = Ref(<<97>>)
    /\ event.arg.old.obj # NULL
    /\ event.arg.other.obj # NULL
    /\ Len(effects) = 10
    /\ effects[10].op = "ext_data_control_source_v1_destroy"
    /\ selection_source.obj # event.arg.old.obj
----------------------------------------------------------------------------
(* The mirror does not feed itself *)

\* C13: when the remote commits an offer that describes a source published
\* by update_remote_selection, handle_selection requests no transfer and sets
\* no host property; in particular the offer for the source that republished
\* a text just received from the remote causes no second update of the
\* host's clipboard text.
C13_OwnOfferNotPushed ==
    (/\ event.handler = "handle_selection"
     /\ event.arg.id # NULL
     /\ event.arg.origin # NULL)
        => /\ Calls("mpv_set_property_string") = {}
           /\ Calls("ext_data_control_offer_v1_receive") = {}
           /\ ~event.arg.received

\* the whole round: a foreign selection was received and pushed, the host
\* reported the same text back, it was republished, and the offer for the
\* republished source has been committed and released without a transfer
C13_Witness ==
    /\ event.handler = "handle_selection"
    /\ event.arg.tracked
    /\ event.arg.origin # NULL
    /\ Deref(event.arg.origin).echo
    /\ event.arg.own
    /\ event.arg.announced = <<custom_mime_type_name>> \o utf8_mimes
    /\ effects = <<[op |-> "ext_data_control_offer_v1_destroy",
                    arg |-> Deref(event.arg.id)]>>
----------------------------------------------------------------------------
(* The end of the loop *)

\* the last step was the iteration that left the loop
LoopLeft == event.handler = "poll" /\ pc = "done"

\* C14 as claimed: when the loop is left, mpv_open_cplugin returns -1 if
\* poll failed and 0 in every other case.
C14_SuccessUnlessPollFails ==
    LoopLeft => rc = (IF event.arg.failed THEN -1 ELSE 0)

\* C14: when the loop is left, mpv_open_cplugin returns 0 only if the
\* iteration found a host shutdown event or a window-manager shutdown event
\* before any error or hangup that is tested earlier; it returns -1 when
\* poll failed and when the loop ended on an error or hangup of the display
\* connection, the wake pipe or the window-manager socket.
C14_SuccessOnlyForShutdown ==
    LoopLeft =>
        LET p == event.arg
            host_shutdown == ~p.failed /\ ~p.err0 /\ p.in1 /\ p.shutdown
            wm_shutdown == /\ ~p.failed /\ ~p.err0 /\ ~p.err1
                           /\ p.in2 /\ p.i3shutdown
        IN  /\ rc \in {0, -1}
            /\ rc = 0 <=> (host_shutdown \/ wm_shutdown)
            /\ (p.failed \/ ~(p.shutdown \/ p.i3shutdown)) => rc = -1

\* the loop was left for a hangup on the window-manager socket alone
C14_Witness ==
    /\ LoopLeft
    /\ event.arg = [Quiet EXCEPT !.err2 = TRUE]
    /\ rc = -1
    /\ Calls("logger") # {}

\* the loop was left for a host shutdown
C14_WitnessShutdown ==
    /\ LoopLeft
    /\ event.arg = [Quiet EXCEPT !.in1 = TRUE, !.shutdown = TRUE]
    /\ rc = 0
\* the host's force-media-title values the last step pushed, in order
TitlesPushed ==
    SelectSeq(effects, LAMBDA c : /\ c.op = "mpv_set_property_string"
                                  /\ c.arg[1] = "force-media-title")

\* C15: an iteration of the loop in which poll reports POLLERR, POLLHUP or
\* POLLNVAL for the display connection, the wake pipe or the window-manager
\* socket leaves the loop; and once mpv_open_cplugin has returned, from the
\* loop or from a failed startup, no virtual pointer and no data-control
\* device is bound, no output, seat or toplevel handle is tracked, neither
\* slot holds a source, and the last request of the returning step set
\* force-media-title to the empty string.
C15_HangupEndsLoopAndTeardownIsFull ==
    /\ (event.handler = "poll"
        /\ (event.arg.err0 \/ event.arg.err1 \/ event.arg.err2))
           => pc = "done"
    /\ pc = "done" =>
           /\ virtual_pointer = NULL
           /\ data_control_device = NULL
           /\ remote_output = NULL
           /\ remote_seat = NULL
           /\ wayland_output_list = {}
           /\ wayland_seat_list = {}
           /\ toplevels = <<>>
           /\ current_eligible_toplevel = NULL
           /\ selection_source.obj = NULL
           /\ primary_selection_source.obj = NULL
           /\ force_media_title = ""
           /\ Len(effects) > 0
           /\ effects[Len(effects)] =
                  [op |-> "mpv_set_property_string",
                   arg |-> <<"force-media-title", "">>]
           /\ TitlesPushed[Len(TitlesPushed)].arg[2] = ""

\* a hangup of the display connection ended a session that had a virtual
\* pointer, a data-control device, a current fullscreen window and a regular
\* source: all were destroyed and the generic title was pushed before the
\* empty one
C15_Witness ==
    /\ LoopLeft
    /\ event.arg.err0
    /\ Calls("zwlr_virtual_pointer_v1_destroy") # {}
    /\ Calls("ext_data_control_device_v1_destroy") # {}
    /\ Calls("ext_data_control_source_v1_destroy") # {}
    /\ Calls("zwlr_foreign_toplevel_handle_v1_destroy") # {}
    /\ Calls("wl_output_destroy") # {}
    /\ Calls("wl_seat_release") # {}
    /\ Len(TitlesPushed) = 2

\* startup failed after the roundtrip had bound an output and a seat: they
\* were destroyed on the way out
C15_WitnessStartup ==
    /\ event.handler = "mpv_open_cplugin"
    /\ pc = "done"
    /\ Calls("wl_output_destroy") # {}
    /\ Calls("wl_seat_release") # {}
----------------------------------------------------------------------------
(* Failed observations *)

\* the last step logged that the observation of the property failed
FailureLogged(name) ==
    \E i \in 1 .. Len(effects) :
        effects[i] = [op |-> "logger",
                      arg |-> "failed to observe the " \o name
                                  \o " property"]

\* the properties observed when the pointer or the device is created
\* (lines 696, 733, 736) and those observed before the loop (1221-1240)
ObservedInLoop == {"mouse-pos", "clipboard/text", "clipboard/text-primary"}
ObservedAtStartup ==
    {"osd-dimensions", "video-params", "wayland-remote-input-forwarding",
     "wayland-remote-force-grab-cursor"}

\* every mpv_observe_property call of the last step that the host refused
\* is followed by the log of the failure
EveryFailureLogged ==
    \A i \in Calls("mpv_observe_property") :
        effects[i].arg \in observe_fails =>
            /\ i < Len(effects)
            /\ effects[i + 1].op = "logger"

\* C17 as claimed: whichever property fails to be observed, the failure is
\* logged and the session is in the reactor loop afterwards.
C17_ObserveFailureNeverFatal ==
    /\ EveryFailureLogged
    /\ \A name \in ObservedInLoop \cup ObservedAtStartup :
           FailureLogged(name) => pc = "loop"

\* C17: every failed observation is logged.  When it is the observation of
\* mouse-pos or of the two clipboard properties, the virtual pointer or the
\* data-control device it belongs to is created all the same and the
\* session stays in the reactor loop.  When it is the observation of
\* osd-dimensions, video-params or one of the two flags, mpv_open_cplugin
\* returns -1 without ever calling poll.
C17_ObserveFailureFatalAtStartupOnly ==
    /\ EveryFailureLogged
    /\ FailureLogged("mouse-pos") =>
           (pc = "loop" /\ virtual_pointer # NULL)
    /\ \A name \in {"clipboard/text", "clipboard/text-primary"} :
           FailureLogged(name) =>
               (pc = "loop" /\ data_control_device # NULL)
    /\ \A name \in ObservedAtStartup :
           FailureLogged(name) =>
               /\ event.handler = "mpv_open_cplugin"
               /\ pc = "done"
               /\ rc = -1
               /\ Calls("poll") = {}
    /\ (event.handler = "mpv_open_cplugin" /\ pc = "loop") =>
           observe_fails \cap ObservedAtStartup = {}

\* the observation of mouse-pos failed when the target seat was named: the
\* pointer exists and the reactor is in its loop
C17_Witness ==
    /\ event.handler = "seat_name"
    /\ FailureLogged("mouse-pos")
    /\ virtual_pointer # NULL
    /\ pc = "loop"

\* the observation of video-params failed at startup
C17_WitnessStartup ==
    /\ event.handler = "mpv_open_cplugin"
    /\ FailureLogged("video-params")
    /\ pc = "done"
----------------------------------------------------------------------------
(* Startup faults *)

\* a startup input with one of the faults of the claim: a name that is unset
\* or empty, a failed connection, or no virtual-pointer manager advertised
IsStartupFault(cfg) ==
    \/ \E n \in {cfg.display_name, cfg.output_name, cfg.seat_name} :
           IF n = NULL THEN TRUE ELSE Deref(n) = ""
    \/ ~cfg.connect
    \/ "zwlr_virtual_pointer_manager_v1" \notin cfg.advertised

\* mpvif-plugin returned -1 from startup: it never called poll and created
\* no virtual pointer
PluginAborted ==
    /\ pc = "done"
    /\ rc = -1
    /\ virtual_pointer = NULL
    /\ Calls("poll") = {}
    /\ Calls("create_virtual_pointer_with_output") = {}

\* mpvif-motion returned -1 from startup: it never waited for an event and
\* created no virtual pointer
MotionAborted ==
    /\ motion.pc = "done"
    /\ motion.rc = -1
    /\ motion.virtual_pointer = NULL
    /\ Calls("mpv_wait_event") = {}
    /\ Calls("create_virtual_pointer") = {}

\* C16: in both variants, a startup that meets an unset or empty display,
\* output or seat name, a failed connection or a remote without the
\* virtual-pointer manager returns -1 without entering the loop and without
\* creating a virtual pointer.
C16_StartupFaultsFatal ==
    /\ (event.handler = "mpv_open_cplugin" /\ pc # "start"
        /\ IsStartupFault(event.arg.cfg)) => PluginAborted
    /\ (event.handler = "mpvif-motion: mpv_open_cplugin"
        /\ IsStartupFault(event.arg.cfg)) => MotionAborted

\* the part of C16 that is about mpvif-plugin
C16_PluginStartupFaultsFatal ==
    (event.handler = "mpv_open_cplugin" /\ pc # "start"
     /\ IsStartupFault(event.arg.cfg)) => PluginAborted

\* the part of C16 that is about mpvif-motion, for names that are unset
C16_MotionUnsetNamesFatal ==
    (/\ event.handler = "mpvif-motion: mpv_open_cplugin"
     /\ \/ NULL \in {event.arg.cfg.display_name, event.arg.cfg.output_name,
                      event.arg.cfg.seat_name}
        \/ ~event.arg.cfg.connect
        \/ "zwlr_virtual_pointer_manager_v1" \notin event.arg.cfg.advertised)
        => MotionAborted

\* mpvif-plugin met an empty output name and returned
C16_WitnessPlugin ==
    /\ event.handler = "mpv_open_cplugin"
    /\ pc = "done"
    /\ event.arg.cfg.output_name = Ref("")
    /\ event.arg.cause = "no remote output name set"
----------------------------------------------------------------------------
(* A commit of an offer that is not the tracked one *)

\* the handler has just handled a commit that names an offer other than
\* the tracked one
IsUnexpectedCommit ==
    /\ event.handler = "handle_selection"
    /\ event.arg.id # NULL
    /\ ~event.arg.tracked

\* C21: a step in which handle_selection handles a commit that names a
\* non-null offer other than the tracked one only logs: it requests no
\* transfer, sets no host property, destroys nothing, leaves the tracked
\* offer, the MIME candidate, the self-origin flag and both selection sources
\* as they were, and leaves the plugin in its loop.
C21_UnexpectedCommitOnlyLogged ==
    [][IsUnexpectedCommit' =>
           /\ effects' = <<logger("unexpected data offer offer event, "
                                  \o "shouldn't happen")>>
           /\ dc_offer' = dc_offer
           /\ dc_offer_mime_idx' = dc_offer_mime_idx
           /\ dc_offer_is_our_own' = dc_offer_is_our_own
           /\ offers' = offers
           /\ selection_source' = selection_source
           /\ primary_selection_source' = primary_selection_source
           /\ Running']_vars

\* an untracked offer was committed while another offer, with a chosen
\* candidate, was tracked
C21_Witness ==
    /\ IsUnexpectedCommit
    /\ dc_offer # NULL
    /\ event.arg.id # dc_offer
    /\ dc_offer_mime_idx = 1
    /\ Len(effects) = 1
----------------------------------------------------------------------------
(* A receive that fails *)

\* the receive of the step failed in pipe2, open_memstream or read
IsFailedReceive ==
    /\ event.handler = "handle_selection"
    /\ event.arg.received
    /\ event.arg.outcome \in {"pipe2", "open_memstream", "read"}

\* the message receive_offer logs for each failure
ReceiveFailureLog ==
    [pipe2 |-> "pipe2() failed: %m",
     open_memstream |-> "open_memstream() failed: %m",
     read |-> "read() failed: %m"]

\* C22: when pipe2, open_memstream or read fails in receive_offer, the
\* failure is logged, no host property is set, the transfer is requested
\* only if the failure was in read, and the plugin is still in its loop and
\* has not crashed, ready for its next event.
C22_FailedReceiveAbandoned ==
    IsFailedReceive
        => /\ Calls("mpv_set_property_string") = {}
           /\ \E i \in Calls("logger") :
                  effects[i].arg = ReceiveFailureLog[event.arg.outcome]
           /\ (Calls("ext_data_control_offer_v1_receive") # {})
                  <=> (event.arg.outcome = "read")
           /\ Running

\* the receive of a committed offer failed when the memory stream was opened
C22_Witness ==
    /\ IsFailedReceive
    /\ event.arg.outcome = "open_memstream"
    /\ event.arg.primary
    /\ effects[1] = logger("open_memstream() failed: %m")

\* the receive of a committed offer failed in read, after the request
C22_WitnessRead ==
    /\ IsFailedReceive
    /\ event.arg.outcome = "read"
    /\ Calls("ext_data_control_offer_v1_receive") # {}
    /\ Calls("logger") # {}
----------------------------------------------------------------------------
(* The blocking receive *)

\* the reactor thread is inside the read loop of receive_offer
Receiving == reactor = "receive"

\* every write end of the transfer pipe is closed and the pipe is empty
AtEndOfFile == read_returns(receive_pipe) = "eof"

\* while the thread is in the read loop, a step handles nothing but the
\* transfer: whatever the three descriptors of poll have to offer waits
NothingElseDispatched ==
    [][Receiving =>
           /\ event'.handler = "receive_offer"
           /\ event'.arg.id = event.arg.id
           /\ dispatched' = dispatched
           /\ gateVars' = gateVars]_vars

\* once the remote has closed its end and the pipe is drained, the next
\* step of the thread ends the receive
EndOfFileEndsReceive ==
    [][(Receiving /\ AtEndOfFile /\ receive_pipe' # receive_pipe)
           => ~Receiving']_vars

\* C23: a receive that has sent its request ends once the remote has closed
\* its write end of the transfer pipe: the plugin's own write end is closed
\* before the first read, so that read returns 0 when the pipe is drained
\* and the step that reads it leaves the loop; until then the thread
\* dispatches no event of the display, the wake pipe or the window manager.
C23_ReceiveEndsAtEndOfFile ==
    /\ [](Receiving => ~receive_pipe.own)
    /\ NothingElseDispatched
    /\ EndOfFileEndsReceive
    /\ (Receiving /\ ~receive_pipe.peer) ~> ~Receiving

\* a receive has read a byte, the remote has closed its end, and a host
\* event is queued with its wake byte written while the thread is still in
\* the read loop
C23_Witness ==
    /\ Receiving
    /\ AtEndOfFile
    /\ receive_pipe.mem = <<97>>
    /\ mpv_events # <<>>
    /\ wakeup_pipe > 0

\* the receive has ended at end-of-file and pushed what it read
C23_WitnessEnded ==
    /\ event.handler = "receive_offer"
    /\ event.arg.step = "eof"
    /\ ~Receiving
    /\ Calls("mpv_set_property_string") # {}
----------------------------------------------------------------------------
(* The wake callback and the drain *)

\* the host event numbered n is in the queue
Queued(n) == \E i \in DOMAIN mpv_events : mpv_events[i].id = n

\* a step that adds to the wake pipe is the callback: it adds one byte and
\* takes nothing from the queue, handles nothing and sends nothing
CallbackOnlyWrites ==
    [][wakeup_pipe' > wakeup_pipe =>
           /\ wakeup_pipe' = wakeup_pipe + 1
           /\ mpv_events' = mpv_events
           /\ dispatched' = dispatched
           /\ last_handler' = last_handler
           /\ effects' = effects
           /\ gateVars' = gateVars
           /\ mapVars' = mapVars]_vars

\* the thread waits in poll with an event queued and no byte in the wake
\* pipe only while the host is about to call the callback for that event
NoLostWakeup ==
    (Running /\ reactor = "poll" /\ mpv_events # <<>> /\ wakeup_pipe = 0)
        => (host_pc = "wakeup" /\ ~need_wakeup)

\* C24: the wake callback only adds a byte to the wake pipe; whatever the
\* interleaving of the host's queueing and callback calls with poll, the
\* read of the wake pipe and the loop over mpv_wait_event, the thread is
\* never left waiting in poll for an event that is queued and whose callback
\* has run, and every event the host queues before the shutdown event is
\* eventually taken from the queue and handled by the thread of the loop.
C24_EveryHostEventDispatched ==
    /\ CallbackOnlyWrites
    /\ []NoLostWakeup
    /\ \A n \in 1 .. MaxEvents : Queued(n) ~> (n \in dispatched)

\* the host queued an event and called the callback after the thread had
\* read the wake pipe and found the queue empty, and before the thread is
\* back in poll
C24_Witness ==
    /\ reactor = "wait_wakeup"
    /\ mpv_events # <<>>
    /\ wakeup_pipe = 1
    /\ host_pc = "idle"
    /\ dispatched # {}

\* three events were handled in the order of their queueing
C24_WitnessAll ==
    /\ dispatched = 1 .. 3
    /\ reactor = "poll"
    /\ wakeup_pipe = 0
----------------------------------------------------------------------------
(* Notifications that outlive the pointer *)

\* the step handled the mouse-pos notification numbered n
HandledMousePos(n) ==
    /\ last_handler = "pchg_mouse_pos"
    /\ n \in dispatched
    /\ \A m \in dispatched : m <= n

\* the step sent a motion or a frame request
MotionEmitted ==
    \/ Calls("zwlr_virtual_pointer_v1_motion_absolute") # {}
    \/ Calls("zwlr_virtual_pointer_v1_frame") # {}

\* the step destroyed the virtual pointer
PointerDestroyed == Calls("zwlr_virtual_pointer_v1_destroy") # {}

\* C25 as claimed, for the notification the host queued first: if it is
\* queued from the start and still queued when a step destroys the pointer,
\* then the step that handles it, whenever that is, sends neither motion
\* nor frame.
C25_NoMotionAfterDestruction ==
    Queued(1) =>
        []((PointerDestroyed /\ Queued(1))
               => [](HandledMousePos(1) => ~MotionEmitted))

\* C25: a mouse-pos notification handled while no virtual pointer is bound
\* sends neither motion nor frame, whatever destroyed the pointer while the
\* notification was queued; a notification handled after a pointer has been
\* created again is sent on that pointer.
C25_NoMotionWithoutPointer ==
    (last_handler = "pchg_mouse_pos" /\ virtual_pointer = NULL)
        => ~MotionEmitted

\* the first notification was handled, without effect, after the target
\* output had been removed, while a notification that disables forwarding
\* waits behind it
C25_Witness ==
    /\ HandledMousePos(1)
    /\ virtual_pointer = NULL
    /\ remote_output = NULL
    /\ effects = <<>>
    /\ Len(mpv_events) = 1
    /\ mpv_events[1].name = "wayland-remote-input-forwarding"
    /\ mpv_events[1].data = <<0>>

----------------------------------------------------------------------------
(* Motion and frame on the virtual pointer *)

PointerRequests ==
    {"zwlr_virtual_pointer_v1_motion_absolute",
     "zwlr_virtual_pointer_v1_frame",
     "zwlr_virtual_pointer_v1_destroy"}

\* the requests the last handler sent on the virtual pointer, in order
PointerTrace == SelectSeq(effects, LAMBDA c : c.op \in PointerRequests)

\* C26: in the requests a handler of mpvif-plugin or of mpvif-motion sends
\* on the virtual pointer, every motion is directly followed by a frame: a
\* handler's requests never end with a motion, and the request after a
\* motion is never another motion or the destruction.  As the requests of a
\* run are those of its handlers one after the other, the same holds of the
\* whole sequence.
C26_MotionThenFrame ==
    \A i \in 1 .. Len(PointerTrace) :
        PointerTrace[i].op = "zwlr_virtual_pointer_v1_motion_absolute"
            => /\ i < Len(PointerTrace)
               /\ PointerTrace[i + 1] = frame

\* mpvif-plugin has forwarded a position
C26_Witness ==
    /\ event.handler = "pchg_mouse_pos"
    /\ Calls("zwlr_virtual_pointer_v1_motion_absolute") # {}
    /\ Calls("zwlr_virtual_pointer_v1_frame") # {}

\* mpvif-motion has forwarded a position
C26_WitnessMotion ==
    /\ event.handler = "mpvif-motion: mouse_pos_changed"
    /\ Calls("zwlr_virtual_pointer_v1_motion_absolute") # {}
    /\ Calls("zwlr_virtual_pointer_v1_frame") # {}

----------------------------------------------------------------------------
(* The targets are bound by name *)

\* the step is a name notification that matches the configured name and
\* comes from an object other than the resolved target
IsLaterMatchingName ==
    \/ /\ event'.handler = "output_name"
       /\ event'.arg[2] = remote_output_name
       /\ remote_output # NULL
       /\ remote_output # Ref(event'.arg[1])
    \/ /\ event'.handler = "seat_name"
       /\ event'.arg[2] = remote_seat_name
       /\ remote_seat # NULL
       /\ remote_seat # Ref(event'.arg[1])

\* C27: the target output and the target seat are bound by the first name
\* notification that matches the configured name; a later matching name
\* notification from another object leaves the resolved targets as they are.
C27_FirstMatchingNameWins ==
    [][IsLaterMatchingName
           => /\ remote_output' = remote_output
              /\ remote_seat' = remote_seat]_vars

----------------------------------------------------------------------------
(* Removal of an output or a seat *)

\* the step's handler has sent the request `op`
Sends(op) == \E i \in DOMAIN effects' : effects'[i].op = op

\* C28: a removal notification for an id removes the tracked output or seat
\* of that id and nothing else from the two lists.  If the object was the
\* resolved target output, the pointer is destroyed (when there is one) and
\* the target output becomes unresolved; if it was the resolved target seat,
\* the pointer and the clipboard device are destroyed (when there are any)
\* and the target seat becomes unresolved; otherwise the pointer, the
\* clipboard device and both resolved targets stay as they are and nothing
\* is destroyed.
C28_RemovalCascades ==
    [][event'.handler = "registry_global_remove" =>
         LET name == event'.arg
             was_output == name \in wayland_output_list
                           /\ remote_output = Ref(name)
             was_seat == name \in wayland_seat_list
                         /\ remote_seat = Ref(name)
         IN  /\ wayland_output_list' = wayland_output_list \ {name}
             /\ wayland_seat_list' = wayland_seat_list \ {name}
             /\ was_output =>
                    /\ virtual_pointer' = NULL
                    /\ remote_output' = NULL
                    /\ Sends("zwlr_virtual_pointer_v1_destroy")
                           <=> virtual_pointer # NULL
                    /\ UNCHANGED <<remote_seat, data_control_device>>
                    /\ ~Sends("ext_data_control_device_v1_destroy")
             /\ was_seat =>
                    /\ virtual_pointer' = NULL
                    /\ data_control_device' = NULL
                    /\ remote_seat' = NULL
                    /\ Sends("zwlr_virtual_pointer_v1_destroy")
                           <=> virtual_pointer # NULL
                    /\ Sends("ext_data_control_device_v1_destroy")
                           <=> data_control_device # NULL
                    /\ UNCHANGED remote_output
             /\ ~was_output /\ ~was_seat =>
                    /\ UNCHANGED <<virtual_pointer, data_control_device,
                                   remote_output, remote_seat>>
                    /\ ~Sends("zwlr_virtual_pointer_v1_destroy")
                    /\ ~Sends("ext_data_control_device_v1_destroy")]_vars

\* the target seat has been removed and took the pointer and the clipboard
\* device with it, while the target output is still resolved
C28_Witness ==
    /\ event.handler = "registry_global_remove"
    /\ event.arg \in SeatIds
    /\ Calls("zwlr_virtual_pointer_v1_destroy") # {}
    /\ Calls("ext_data_control_device_v1_destroy") # {}
    /\ remote_seat = NULL
    /\ remote_output # NULL

\* the target output has been removed and took the pointer with it
C28_WitnessOutput ==
    /\ event.handler = "registry_global_remove"
    /\ event.arg \in OutputIds
    /\ Calls("zwlr_virtual_pointer_v1_destroy") # {}
    /\ remote_output = NULL
    /\ data_control_device # NULL

\* an output that is not the target has been removed while a pointer exists
C28_WitnessOther ==
    /\ event.handler = "registry_global_remove"
    /\ event.arg \in OutputIds
    /\ effects = <<[op |-> "wl_output_destroy", arg |-> event.arg]>>
    /\ virtual_pointer # NULL

----------------------------------------------------------------------------
(* The host title and the eligible windows *)

\* the tracked windows that were eligible at their last done event
EligibleCommitted ==
    {w \in DOMAIN toplevels \cap DOMAIN committed :
         /\ committed[w].title # NULL
         /\ committed[w].app_id # NULL
         /\ committed[w].fullscreen}

GenericTitleShown ==
    force_media_title = snprintf(MediaTitleSize, generic_title_text)

\* a done or closed event has just been handled
AfterCommitOrClose ==
    event.handler \in {"toplevel_handle_done", "toplevel_handle_closed"}

\* C29 as stated: after every commit or close notification the generic title
\* is shown only if no tracked window is eligible as of its last commit, and
\* a fullscreen title is shown whenever some tracked window is.
C29_GenericOnlyIfNoneEligible ==
    AfterCommitOrClose =>
        /\ GenericTitleShown => EligibleCommitted = {}
        /\ EligibleCommitted # {} => ~GenericTitleShown

\* C29, amended: after every commit or close notification the generic title
\* is shown if and only if there is no current eligible window, and the
\* current eligible window, when there is one, is a tracked window that is
\* eligible as of its last commit: the generic title is shown whenever no
\* tracked window is eligible, and a fullscreen title exactly while some
\* window is current, for any number of windows and any order of their
\* commits and closes.
C29_GenericIffNoCurrent ==
    AfterCommitOrClose =>
        /\ GenericTitleShown <=> current_eligible_toplevel = NULL
        /\ current_eligible_toplevel # NULL =>
               Deref(current_eligible_toplevel) \in EligibleCommitted
        /\ EligibleCommitted = {} => GenericTitleShown

\* the current eligible window has closed while another tracked window is
\* eligible as of its last commit, and the generic title is shown
C29_Witness ==
    /\ event.handler = "toplevel_handle_closed"
    /\ event.arg.was_current
    /\ EligibleCommitted # {}
    /\ current_eligible_toplevel = NULL
    /\ GenericTitleShown

\* one of two eligible windows is current and its fullscreen title is shown
C29_WitnessCurrent ==
    /\ event.handler = "toplevel_handle_done"
    /\ Cardinality(EligibleCommitted) = MaxWindows
    /\ current_eligible_toplevel # NULL
    /\ ~GenericTitleShown

\* C30: whenever a window is the current eligible window, the host title is
\* the fullscreen title made of that window's application id and title as of
\* its most recent commit (cut to the size of the title buffer), so that a
\* title or application-id change of the current eligible window followed by
\* a commit is reflected in the host title.
C30_TitleFollowsCurrentWindow ==
    \A w \in DOMAIN toplevels \cap DOMAIN committed :
        current_eligible_toplevel = Ref(w)
            => force_media_title =
                   snprintf(MediaTitleSize,
                       fullscreen_title_text(Deref(committed[w].app_id),
                                             Deref(committed[w].title)))

----------------------------------------------------------------------------
(* The state an announced offer starts with *)

\* the step handles the announcement of a new offer (lines 389-399)
IsOfferAnnouncement ==
    /\ event'.handler = "data_control_device_data_offer"
    /\ event'.arg # NULL

\* C31: every newly announced offer starts with clean per-offer state: once
\* its announcement is handled it is the only offer held, no MIME candidate
\* is chosen and the self-origin flag is false, whatever announcements, MIME
\* candidates and commits came before.
C31_AnnouncedOfferStartsClean ==
    [][IsOfferAnnouncement
           => /\ offers' = {Deref(event'.arg)}
              /\ dc_offer_mime_idx' = -1
              /\ ~dc_offer_is_our_own']_vars

----------------------------------------------------------------------------
(* The clipboard device and its gate *)

\* C32: a clipboard device exists only if the optional data-control manager
\* was bound at startup; without the manager, a seat-name notification
\* creates no clipboard device and dereferences no absent manager, and the
\* reactor keeps running.
C32_NoDeviceWithoutManager ==
    /\ data_control_device # NULL => data_control_manager # NULL
    /\ (last_handler = "seat_name" /\ data_control_manager = NULL)
           => /\ fault = "none"
              /\ ~crashed
              /\ data_control_device = NULL
              /\ Calls("ext_data_control_manager_v1_get_data_device") = {}

\* the last step changed an input of the clipboard device's gate: a seat was
\* named or removed, or the input-forwarding flag was reported
AfterDeviceGateChange ==
    last_handler \in {"seat_name", "registry_global_remove",
                      "pchg_wayland_remote_input_forwarding"}

\* C33: with the data-control manager bound, after every seat-name, removal
\* and input-forwarding notification the clipboard device exists if and only
\* if the target seat is resolved and input forwarding is enabled.
C33_DeviceMatchesGate ==
    (AfterDeviceGateChange /\ data_control_manager # NULL)
        => (data_control_device # NULL
                <=> (remote_seat # NULL /\ input_forwarding_enabled # 0))

----------------------------------------------------------------------------
(* The wake callback and the teardown *)

\* the wake pipe is open from the pipe2 of line 1246 to the close of lines
\* 1310-1313, that is, while the plugin is in its loop
WakePipeOpen == pc = "loop"

\* C34: the wake callback writes to the wake pipe only while the pipe is
\* open: in no interleaving of the host's thread with the plugin's does the
\* write of line 989 happen after the teardown has closed the descriptor.
C34_CallbackWritesOpenPipeOnly ==
    [][wakeup_pipe' = wakeup_mpv_events(wakeup_pipe) => WakePipeOpen]_vars
============================================================================
